---- MODULE Spec2Model ----
(***************************************************************************)
(* A model of igor's command framework: the pattern compiler, the          *)
(* argument / flag / parameter registries and parser (lib/parser), the     *)
(* before/main/after lifecycle of Command.execute (src/commands/Command)   *)
(* and the dispatcher of src/index.js.                                     *)
(*                                                                         *)
(* JavaScript strings are sequences of one-character strings, so that      *)
(* split, replace, indexOf and template literals are computed as the code  *)
(* computes them.  A JavaScript object is a function from its keys to its  *)
(* values; where the code iterates an object (for .. in) the object is a   *)
(* sequence of entries in insertion order (no key of the model is an       *)
(* integer-like string, for which the iteration order would differ).       *)
(***************************************************************************)
EXTENDS Integers, Sequences, FiniteSets, TLC

\* ------------------------------------------------------------------------
\* JavaScript values and string primitives
\* ------------------------------------------------------------------------

\* the value undefined: a sequence that is not a string of characters
Undefined == <<"#undefined">>

\* String(x) as a template literal `${x}` renders it
ToStr(x) == IF x = Undefined THEN <<"u", "n", "d", "e", "f", "i", "n", "e", "d">> ELSE x

\* the empty object {}
EmptyObj == << >>

\* obj[k] = v
Put(obj, k, v) == [x \in (DOMAIN obj) \cup {k} |-> IF x = k THEN v ELSE obj[x]]

\* delete obj[k]
Delete(obj, k) == [x \in (DOMAIN obj) \ {k} |-> obj[x]]

\* obj.hasOwnProperty(k)
HasOwn(obj, k) == k \in DOMAIN obj

\* Array.prototype.indexOf / String.prototype.indexOf for one element; 0-based, -1 if absent
IndexOf(arr, x) ==
  IF \E i \in 1..Len(arr) : arr[i] = x
  THEN (CHOOSE i \in 1..Len(arr) : arr[i] = x /\ \A j \in 1..(i - 1) : arr[j] # x) - 1
  ELSE -1

\* arr.splice(index, count) for a 0-based index inside the array: the array that is left
Splice(arr, index, count) ==
  SubSeq(arr, 1, index) \o SubSeq(arr, index + count + 1, Len(arr))

\* str.replace(ch, ''): the first occurrence of ch removed
ReplaceFirst(str, ch) ==
  IF IndexOf(str, ch) = -1 THEN str ELSE Splice(str, IndexOf(str, ch), 1)

RECURSIVE SplitOn(_, _)
\* str.split(ch): the pieces between every occurrence of ch (never an empty array)
SplitOn(str, ch) ==
  IF IndexOf(str, ch) = -1 THEN <<str>>
  ELSE <<SubSeq(str, 1, IndexOf(str, ch))>>
         \o SplitOn(SubSeq(str, IndexOf(str, ch) + 2, Len(str)), ch)

RECURSIVE JoinAll(_)
\* arr.join('')
JoinAll(arr) == IF arr = << >> THEN << >> ELSE Head(arr) \o JoinAll(Tail(arr))

RECURSIVE JoinWith(_, _)
\* arr.join(ch)
JoinWith(arr, ch) ==
  IF Len(arr) = 0 THEN << >>
  ELSE IF Len(arr) = 1 THEN arr[1]
  ELSE arr[1] \o <<ch>> \o JoinWith(Tail(arr), ch)

\* F applied to the value of v, v being computed once
Eval(v, F(_)) == CHOOSE r \in { F(x) : x \in {v} } : TRUE

\* all sequences over S of length at most n
SeqUpTo(S, n) == UNION {[1..k -> S] : k \in 0..n}

\* ------------------------------------------------------------------------
\* Errors (lib/error/fatal-error.js); every error carries its isFatal tag
\* ------------------------------------------------------------------------

NoError == [msg |-> "none", isFatal |-> FALSE, about |-> Undefined]

\* new FatalError(msg): an Error with isFatal = true
FatalError(m, what) == [msg |-> m, isFatal |-> TRUE, about |-> what]

\* ------------------------------------------------------------------------
\* Parser.constructor: the pattern compiler
\* ------------------------------------------------------------------------

\* one pattern token to its descriptor (the body of the map callback)
Descriptor(parameter) ==
  LET parsedParam == ReplaceFirst(ReplaceFirst(parameter, "<"), ">")
  IN  IF IndexOf(parsedParam, "?") > -1
      THEN [name |-> ReplaceFirst(parsedParam, "?"), required |-> FALSE]
      ELSE [name |-> parsedParam, required |-> TRUE]

RECURSIVE CompileFromFlagNeverSet(_, _, _, _)
\* CompileFrom as it would be if optionalParamFound were never set
CompileFromFlagNeverSet(parameters, i, optionalParamFound, acc) ==
  IF i > Len(parameters) THEN [pattern |-> acc, err |-> NoError]
  ELSE CompileFromFlagNeverSet(parameters, i + 1, optionalParamFound,
                               Append(acc, Descriptor(parameters[i])))

RECURSIVE CompileFrom(_, _, _, _)
\* parameters.map(...) from token i on, with the optionalParamFound flag it keeps
CompileFrom(parameters, i, optionalParamFound, acc) ==
  IF i > Len(parameters) THEN [pattern |-> acc, err |-> NoError]
  ELSE LET d == Descriptor(parameters[i])
       IN  IF ~d.required THEN CompileFrom(parameters, i + 1, TRUE, Append(acc, d))
           ELSE IF optionalParamFound
           THEN [pattern |-> << >>,
                 err |-> FatalError("required parameter cannot be after optional parameter", Undefined)]
           ELSE CompileFrom(parameters, i + 1, optionalParamFound, Append(acc, d))

\* new Parser(p): the compiled descriptors (this.pattern), or the error thrown
CompilePattern(p) ==
  LET split == SplitOn(p, " ")
  IN  IF Len(split) > 1
      THEN CompileFrom(SubSeq(split, 2, Len(split)), 1, FALSE, << >>)
      ELSE [pattern |-> << >>, err |-> NoError]

\* ------------------------------------------------------------------------
\* Parser.castToType
\* ------------------------------------------------------------------------

\* JavaScript values: a string, a number (n * 10^exp, n not a multiple of 10
\* unless it is 0; s is "Infinity" for the two infinities, n then being the sign),
\* a boolean, null
JStr(str) == [kind |-> "string", s |-> str, n |-> 0, exp |-> 0, b |-> FALSE]
JBool(bool) == [kind |-> "boolean", s |-> << >>, n |-> 0, exp |-> 0, b |-> bool]
JNull == [kind |-> "null", s |-> << >>, n |-> 0, exp |-> 0, b |-> FALSE]

RECURSIVE JFloat(_, _)
\* the number m * 10^e
JFloat(m, e) ==
  IF m = 0 THEN [kind |-> "number", s |-> << >>, n |-> 0, exp |-> 0, b |-> FALSE]
  ELSE IF m % 10 = 0 THEN JFloat(m \div 10, e + 1)
  ELSE [kind |-> "number", s |-> << >>, n |-> m, exp |-> e, b |-> FALSE]

\* the integer num
JNum(num) == JFloat(num, 0)

s_Infinity == <<"I", "n", "f", "i", "n", "i", "t", "y">>

\* Infinity and -Infinity
JInfinity(neg) ==
  [kind |-> "number", s |-> s_Infinity, n |-> IF neg THEN 0 - 1 ELSE 1, exp |-> 0, b |-> FALSE]

\* an absent type (the type key missing from opts, or castToType called without one)
NoType == ""

Digits == <<"0", "1", "2", "3", "4", "5", "6", "7", "8", "9">>
IsDigit(ch) == IndexOf(Digits, ch) # -1

\* the digits of radix 16, in both cases
HexLower == Digits \o <<"a", "b", "c", "d", "e", "f">>
HexUpper == Digits \o <<"A", "B", "C", "D", "E", "F">>
IsHexDigit(ch) == IndexOf(HexLower, ch) # -1 \/ IndexOf(HexUpper, ch) # -1
HexDigitValue(ch) == IF IndexOf(HexLower, ch) # -1 THEN IndexOf(HexLower, ch) ELSE IndexOf(HexUpper, ch)

RECURSIVE LeadingDigits(_)
\* the longest prefix of str made of decimal digits
LeadingDigits(str) ==
  IF str # << >> /\ IsDigit(Head(str)) THEN <<Head(str)>> \o LeadingDigits(Tail(str)) ELSE << >>

RECURSIVE LeadingHexDigits(_)
LeadingHexDigits(str) ==
  IF str # << >> /\ IsHexDigit(Head(str)) THEN <<Head(str)>> \o LeadingHexDigits(Tail(str))
  ELSE << >>

RECURSIVE DigitsValue(_)
DigitsValue(ds) ==
  IF ds = << >> THEN 0 ELSE 10 * DigitsValue(SubSeq(ds, 1, Len(ds) - 1)) + IndexOf(Digits, ds[Len(ds)])

RECURSIVE HexValue(_)
HexValue(ds) ==
  IF ds = << >> THEN 0 ELSE 16 * HexValue(SubSeq(ds, 1, Len(ds) - 1)) + HexDigitValue(ds[Len(ds)])

\* the white space trim, parseInt and parseFloat skip (of the characters of the model)
IsSpace(ch) == ch \in {" ", "\t"}

RECURSIVE TrimStart(_)
TrimStart(str) == IF str # << >> /\ IsSpace(Head(str)) THEN TrimStart(Tail(str)) ELSE str

RECURSIVE TrimEnd(_)
TrimEnd(str) ==
  IF str # << >> /\ IsSpace(str[Len(str)]) THEN TrimEnd(SubSeq(str, 1, Len(str) - 1)) ELSE str

\* str.trim()
Trim(str) == TrimEnd(TrimStart(str))

UpperLetters ==
  <<"A", "B", "C", "D", "E", "F", "G", "H", "I", "J", "K", "L", "M", "N", "O", "P", "Q", "R",
    "S", "T", "U", "V", "W", "X", "Y", "Z">>
LowerLetters ==
  <<"a", "b", "c", "d", "e", "f", "g", "h", "i", "j", "k", "l", "m", "n", "o", "p", "q", "r",
    "s", "t", "u", "v", "w", "x", "y", "z">>

\* ch.toLowerCase()
LowerChar(ch) ==
  IF IndexOf(UpperLetters, ch) # -1 THEN LowerLetters[IndexOf(UpperLetters, ch) + 1] ELSE ch

ToLowerCase(str) == [i \in 1..Len(str) |-> LowerChar(str[i])]

\* str starts with the characters of pre
StartsWith(str, pre) == Len(str) >= Len(pre) /\ SubSeq(str, 1, Len(pre)) = pre

\* the sign parseInt and parseFloat read, and the string after it
IsNegative(t) == t # << >> /\ Head(t) = "-"
Unsigned(t) == IF t # << >> /\ Head(t) \in {"-", "+"} THEN Tail(t) ELSE t

\* parseInt(value), no radix given: white space, a sign, then either 0x / 0X and
\* the longest run of hexadecimal digits, or the longest run of decimal digits;
\* NaN ([nan |-> TRUE]) if the run is empty
ParseInt(value) ==
  LET t == TrimStart(value)
      body == Unsigned(t)
      hex == StartsWith(body, <<"0", "x">>) \/ StartsWith(body, <<"0", "X">>)
      ds == IF hex THEN LeadingHexDigits(SubSeq(body, 3, Len(body))) ELSE LeadingDigits(body)
      magnitude == IF hex THEN HexValue(ds) ELSE DigitsValue(ds)
  IN  IF ds = << >> THEN [nan |-> TRUE, val |-> JNull]
      ELSE [nan |-> FALSE, val |-> JNum(IF IsNegative(t) THEN 0 - magnitude ELSE magnitude)]

\* the exponent part at the head of str: e or E, a sign, digits; 0 if there is none
ExponentOf(str) ==
  IF str # << >> /\ Head(str) \in {"e", "E"} /\ LeadingDigits(Unsigned(Tail(str))) # << >>
  THEN IF IsNegative(Tail(str)) THEN 0 - DigitsValue(LeadingDigits(Unsigned(Tail(str))))
       ELSE DigitsValue(LeadingDigits(Unsigned(Tail(str))))
  ELSE 0

\* parseFloat(value): white space, a sign, then the longest prefix that is
\* Infinity or a decimal literal (digits, a point, digits, an exponent); NaN if
\* there is none
ParseFloat(value) ==
  LET t == TrimStart(value)
      body == Unsigned(t)
      ds == LeadingDigits(body)
      rest == SubSeq(body, Len(ds) + 1, Len(body))
      point == rest # << >> /\ Head(rest) = "."
      fr == IF point THEN LeadingDigits(Tail(rest)) ELSE << >>
      tail == IF point THEN SubSeq(rest, Len(fr) + 2, Len(rest)) ELSE rest
      magnitude == DigitsValue(ds \o fr)
  IN  IF StartsWith(body, s_Infinity) THEN [nan |-> FALSE, val |-> JInfinity(IsNegative(t))]
      ELSE IF ds = << >> /\ fr = << >> THEN [nan |-> TRUE, val |-> JNull]
      ELSE [nan |-> FALSE,
            val |-> JFloat(IF IsNegative(t) THEN 0 - magnitude ELSE magnitude,
                           ExponentOf(tail) - Len(fr))]

\* the test of the boolean branch with the trim calls left out
IsTrueStringUntrimmed(value) ==
  \/ ToLowerCase(value) = <<"t", "r", "u", "e">>
  \/ ToLowerCase(value) = <<"t">>
  \/ value = <<"1">>

\* the test of the boolean branch
IsTrueString(value) ==
  \/ Trim(ToLowerCase(value)) = <<"t", "r", "u", "e">>
  \/ Trim(ToLowerCase(value)) = <<"t">>
  \/ Trim(value) = <<"1">>

\* castToType(value, type): the value returned, or the error thrown
castToType(value, type) ==
  LET t == IF type = NoType THEN "string" ELSE type
  IN  IF t = "string" THEN [val |-> JStr(value), err |-> NoError]
      ELSE IF t = "int"
      THEN IF ParseInt(value).nan
           THEN [val |-> JNull, err |-> FatalError("is not of type int", value)]
           ELSE [val |-> ParseInt(value).val, err |-> NoError]
      ELSE IF t = "float"
      THEN IF ParseFloat(value).nan
           THEN [val |-> JNull, err |-> FatalError("is not of type float", value)]
           ELSE [val |-> ParseFloat(value).val, err |-> NoError]
      ELSE IF t = "boolean"
      THEN [val |-> JBool(IsTrueString(value)), err |-> NoError]
      ELSE [val |-> JNull, err |-> FatalError("invalid type received", Undefined)]

\* ------------------------------------------------------------------------
\* The registries of one Parser: this.arguments, this.flags, this.parameters
\* ------------------------------------------------------------------------

\* the keys of a registry, in the order for .. in visits them
Keys(reg) == [i \in 1..Len(reg) |-> reg[i].key]

\* registry.hasOwnProperty(id)
RegHas(reg, id) == \E i \in 1..Len(reg) : reg[i].key = id

\* registry[id]
RegGet(reg, id) == reg[CHOOSE i \in 1..Len(reg) : reg[i].key = id]

\* registry[key] = entry: a new key goes last, an existing key keeps its place
RegPut(reg, entry) ==
  IF RegHas(reg, entry.key)
  THEN [i \in 1..Len(reg) |-> IF reg[i].key = entry.key THEN entry ELSE reg[i]]
  ELSE Append(reg, entry)

\* Boolean(x) for a string or undefined
Truthy(x) == x # Undefined /\ x # << >>

\* const [longHand, shortHand] = name.split('|')
LongHandOf(name) == SplitOn(name, "|")[1]
ShortHandOf(name) == IF Len(SplitOn(name, "|")) > 1 THEN SplitOn(name, "|")[2] ELSE Undefined

\* { shortHand: shortHand, type: 'string', ...opts }
MakeEntry(longHand, shortHand, opts) ==
  [key |-> longHand, shortHand |-> shortHand,
   type |-> IF opts.type = NoType THEN "string" ELSE opts.type,
   validate |-> opts.validate]

\* the inner loop of _assertNotAlreadyRegistered for one id: the error thrown, if any
AssertId(argReg, flagReg, id) ==
  IF RegHas(argReg, id) THEN FatalError("argument with identifier already exists", id)
  ELSE IF RegHas(flagReg, id) THEN FatalError("flag with identifier already exists", id)
  ELSE NoError

\* _assertNotAlreadyRegistered(longHand, shortHand): the error thrown, or NoError
AssertNotAlreadyRegistered(argReg, flagReg, longHand, shortHand) ==
  LET ids == SelectSeq(<<longHand, shortHand>>, Truthy)
  IN  IF \E i \in 1..Len(ids) : AssertId(argReg, flagReg, ids[i]) # NoError
      THEN AssertId(argReg, flagReg,
             ids[CHOOSE i \in 1..Len(ids) :
                   /\ AssertId(argReg, flagReg, ids[i]) # NoError
                   /\ \A j \in 1..(i - 1) : AssertId(argReg, flagReg, ids[j]) = NoError])
      ELSE NoError

\* the error `throw FatalError(...)` raises: the class is called without new
ClassCallTypeError ==
  [msg |-> "Class constructor FatalError cannot be invoked without 'new'",
   isFatal |-> FALSE, about |-> Undefined]

\* a parser object: its compiled pattern and its three registries
NewParser(p) ==
  [pattern |-> CompilePattern(p).pattern, arguments |-> << >>, flags |-> << >>,
   parameters |-> EmptyObj]

\* Parser.argument(name, opts): the parser as the call leaves it, and the error thrown
ParserArgument(parser, name, opts) ==
  IF ~Truthy(name) THEN [parser |-> parser, err |-> ClassCallTypeError]
  ELSE LET longHand == LongHandOf(name)
           shortHand == ShortHandOf(name)
           err == AssertNotAlreadyRegistered(parser.arguments, parser.flags, longHand, shortHand)
       IN  IF err # NoError THEN [parser |-> parser, err |-> err]
           ELSE [parser |-> [parser EXCEPT !.arguments =
                                RegPut(parser.arguments, MakeEntry(longHand, shortHand, opts))],
                 err |-> NoError]

\* Parser.flag with the assignment written before the duplicate check
ParserFlagCommitsFirst(parser, name, opts) ==
  IF ~Truthy(name)
  THEN [parser |-> parser, err |-> FatalError("no name found in flag registration", Undefined)]
  ELSE LET longHand == LongHandOf(name)
           shortHand == ShortHandOf(name)
           err == AssertNotAlreadyRegistered(parser.arguments, parser.flags, longHand, shortHand)
       IN  [parser |-> [parser EXCEPT !.flags =
                          RegPut(parser.flags, MakeEntry(longHand, shortHand, opts))],
            err |-> err]

\* Parser.flag(name, opts)
ParserFlag(parser, name, opts) ==
  IF ~Truthy(name)
  THEN [parser |-> parser, err |-> FatalError("no name found in flag registration", Undefined)]
  ELSE LET longHand == LongHandOf(name)
           shortHand == ShortHandOf(name)
           err == AssertNotAlreadyRegistered(parser.arguments, parser.flags, longHand, shortHand)
       IN  IF err # NoError THEN [parser |-> parser, err |-> err]
           ELSE [parser |-> [parser EXCEPT !.flags =
                                RegPut(parser.flags, MakeEntry(longHand, shortHand, opts))],
                 err |-> NoError]

\* Parser.parameter without the hasOwnProperty test: a second registration
\* replaces the first
ParserParameterOverwrites(parser, name, opts) ==
  IF ~Truthy(name)
  THEN [parser |-> parser, err |-> FatalError("no name found in parameter registration", Undefined)]
  ELSE IF \E i \in 1..Len(parser.pattern) : parser.pattern[i].name = name
  THEN [parser |-> [parser EXCEPT !.parameters =
                      Put(parser.parameters, name,
                          [type |-> IF opts.type = NoType THEN "string" ELSE opts.type])],
        err |-> NoError]
  ELSE [parser |-> parser, err |-> FatalError("was not specified in pattern", name)]

\* Parser.parameter(name, opts)
ParserParameter(parser, name, opts) ==
  IF ~Truthy(name)
  THEN [parser |-> parser, err |-> FatalError("no name found in parameter registration", Undefined)]
  ELSE IF \E i \in 1..Len(parser.pattern) : parser.pattern[i].name = name
  THEN IF ~HasOwn(parser.parameters, name)
       THEN [parser |-> [parser EXCEPT !.parameters =
                            Put(parser.parameters, name,
                                [type |-> IF opts.type = NoType THEN "string" ELSE opts.type])],
             err |-> NoError]
       ELSE [parser |-> parser, err |-> FatalError("is already a registered parameter", name)]
  ELSE [parser |-> parser, err |-> FatalError("was not specified in pattern", name)]

\* ------------------------------------------------------------------------
\* Parser.parseArguments, parseFlags, parseParameters, parse
\* ------------------------------------------------------------------------

\* the tokens `--${key}` and `-${shortHand}` an entry is searched by
LongToken(key) == <<"-", "-">> \o ToStr(key)
ShortToken(shortHand) == <<"-">> \o ToStr(shortHand)

\* removes the '-' of a key: arg.split('-').join('')
StripHyphens(key) == JoinAll(SplitOn(key, "-"))

\* the typeof test as it would be if no predicate were ever seen
IsFunctionNever(validate) == FALSE

\* typeof validate === 'function'
IsFunction(validate) == validate # "none"

\* validate(castedValue) for the predicates of the model: one that returns true
\* for every value, and one that returns true for the string acme alone
ValidateAccepts(validate, value) ==
  validate = "accepts" \/ (validate = "isAcme" /\ value = JStr(<<"a", "c", "m", "e">>))

\* what the callback did with a token it found: the entry and the token i, the
\* index and the args array it was found in, the token after it (Undefined if
\* there is none), how the callback ended, and the parsed object and the args
\* array as it left them
Found(entry, i, index, st, outcome, after) ==
  [key |-> entry.key, token |-> i, index |-> index, before |-> st.args,
   value |-> IF index + 2 > Len(st.args) THEN Undefined ELSE st.args[index + 2],
   validate |-> entry.validate, type |-> entry.type,
   outcome |-> outcome, parsed |-> after.parsed, left |-> after.args]

\* the callback without the test for a value: an identifier that is the last
\* token stores null
ArgumentStepStoresNull(entry, i, st) ==
  LET index == IndexOf(st.args, i)
  IN  IF st.err # NoError \/ index = -1 THEN st
      ELSE LET after == [args |-> SubSeq(st.args, 1, index),
                         parsed |-> Put(st.parsed, StripHyphens(entry.key), JNull)]
           IN  IF index + 2 > Len(st.args)
               THEN [args |-> after.args, parsed |-> after.parsed, err |-> NoError,
                     log |-> Append(st.log, Found(entry, i, index, st, "stored", after))]
               ELSE [args |-> Splice(st.args, index, 2),
                     parsed |-> Put(st.parsed, StripHyphens(entry.key),
                                    castToType(st.args[index + 2], entry.type).val),
                     err |-> castToType(st.args[index + 2], entry.type).err,
                     log |-> st.log]

\* the forEach callback of parseArguments for one entry and one searched token i;
\* st holds the args array, the parsed object, the error thrown so far and the
\* log of the tokens found
ArgumentStep(entry, i, st) ==
  LET index == IndexOf(st.args, i)
  IN  IF st.err # NoError \/ index = -1 THEN st
      ELSE IF index + 2 > Len(st.args)
      THEN [st EXCEPT !.err = FatalError("no value passed to", i),
                      !.log = Append(@, Found(entry, i, index, st, "noValue", st))]
      ELSE LET cast == castToType(st.args[index + 2], entry.type)
           IN  IF cast.err # NoError
               THEN [st EXCEPT !.err = cast.err,
                               !.log = Append(@, Found(entry, i, index, st, "castThrew", st))]
               ELSE IF IsFunction(entry.validate) /\ ~ValidateAccepts(entry.validate, cast.val)
               THEN [st EXCEPT !.err = FatalError("failed validation", entry.key),
                               !.log = Append(@, Found(entry, i, index, st, "rejected", st))]
               ELSE LET after == [args |-> Splice(st.args, index, 2),
                                  parsed |-> Put(st.parsed, StripHyphens(entry.key), cast.val)]
                    IN  [args |-> after.args, parsed |-> after.parsed, err |-> NoError,
                         log |-> Append(st.log, Found(entry, i, index, st, "stored", after))]

RECURSIVE ParseArgumentsFromShortFirst(_, _, _)
\* the loop with the short form searched before the long form
ParseArgumentsFromShortFirst(reg, k, st) ==
  IF k > Len(reg) THEN st
  ELSE LET searched == SelectSeq(<<ShortToken(reg[k].shortHand), LongToken(reg[k].key)>>, Truthy)
       IN  Eval(ArgumentStep(reg[k], searched[1], st),
                LAMBDA first :
                  Eval(ArgumentStep(reg[k], searched[2], first),
                       LAMBDA second : ParseArgumentsFromShortFirst(reg, k + 1, second)))

RECURSIVE ParseArgumentsFrom(_, _, _)
\* the for .. in loop of parseArguments from entry k on
ParseArgumentsFrom(reg, k, st) ==
  IF k > Len(reg) THEN st
  ELSE LET searched == SelectSeq(<<LongToken(reg[k].key), ShortToken(reg[k].shortHand)>>, Truthy)
       IN  Eval(ArgumentStep(reg[k], searched[1], st),
                LAMBDA first :
                  Eval(ArgumentStep(reg[k], searched[2], first),
                       LAMBDA second : ParseArgumentsFrom(reg, k + 1, second)))

\* parseArguments(args): the parsed object, the args array as it leaves it, the error thrown
ParseArguments(reg, args) ==
  ParseArgumentsFrom(reg, 1, [args |-> args, parsed |-> EmptyObj, err |-> NoError, log |-> << >>])

\* the callback with splice(index, 2): the token after the flag goes with it
FlagStepTakesValue(flag, name, st) ==
  LET index == IndexOf(st.args, name)
  IN  IF index # -1
      THEN [args |-> Splice(st.args, index, 2),
            parsed |-> Put(Delete(st.parsed, name), flag, TRUE)]
      ELSE [args |-> st.args,
            parsed |-> Put(Delete(st.parsed, name), flag, FALSE)]

\* the callback with the splice moved out of the test: splice(-1, 1) takes the
\* last token when the name is absent
FlagStepSplicesAlways(flag, name, st) ==
  LET index == IndexOf(st.args, name)
  IN  IF index # -1
      THEN [args |-> Splice(st.args, index, 1),
            parsed |-> Put(Delete(st.parsed, name), flag, TRUE)]
      ELSE [args |-> SubSeq(st.args, 1, Len(st.args) - 1),
            parsed |-> Put(Delete(st.parsed, name), flag, FALSE)]

\* the forEach callback of parseFlags for one flag and one searched token name
FlagStep(flag, name, st) ==
  LET index == IndexOf(st.args, name)
  IN  IF index # -1
      THEN [args |-> Splice(st.args, index, 1),
            parsed |-> Put(Delete(st.parsed, name), flag, TRUE)]
      ELSE [args |-> st.args,
            parsed |-> Put(Delete(st.parsed, name), flag, FALSE)]

RECURSIVE ParseFlagsFrom(_, _, _)
\* the for .. in loop of parseFlags from key k on (a key deleted meanwhile is not visited)
ParseFlagsFrom(keys, k, st) ==
  IF k > Len(keys) THEN st
  ELSE IF ~HasOwn(st.parsed, keys[k]) THEN ParseFlagsFrom(keys, k + 1, st)
  ELSE LET shortHand == st.parsed[keys[k]].shortHand
       IN  Eval(FlagStep(keys[k], LongToken(keys[k]), st),
                LAMBDA first :
                  Eval(FlagStep(keys[k], ShortToken(shortHand), first),
                       LAMBDA second : ParseFlagsFrom(keys, k + 1, second)))

\* parseFlags(args): the parsed object and the args array as it leaves it
ParseFlags(reg, args) ==
  ParseFlagsFrom(Keys(reg), 1,
                 [args |-> args, parsed |-> [k \in {reg[i].key : i \in 1..Len(reg)} |-> RegGet(reg, k)]])

RECURSIVE ParseParametersFromSkipsRequired(_, _, _, _, _)
\* the for loop without the required test: a descriptor without a token is passed over
ParseParametersFromSkipsRequired(pat, params, args, i, parsed) ==
  IF i > Len(pat) THEN [parsed |-> parsed, err |-> NoError]
  ELSE IF i <= Len(args)
  THEN IF HasOwn(params, pat[i].name)
       THEN LET cast == castToType(args[i], params[pat[i].name].type)
            IN  IF cast.err # NoError THEN [parsed |-> parsed, err |-> cast.err]
                ELSE Eval(Put(parsed, pat[i].name, cast.val),
                          LAMBDA bound :
                            ParseParametersFromSkipsRequired(pat, params, args, i + 1, bound))
       ELSE [parsed |-> parsed, err |-> FatalError("is not a registered parameters", pat[i].name)]
  ELSE ParseParametersFromSkipsRequired(pat, params, args, i + 1, parsed)

RECURSIVE ParseParametersFrom(_, _, _, _, _)
\* the for loop of parseParameters from position i on (1-based)
ParseParametersFrom(pat, params, args, i, parsed) ==
  IF i > Len(pat) THEN [parsed |-> parsed, err |-> NoError]
  ELSE IF i <= Len(args)
  THEN IF HasOwn(params, pat[i].name)
       THEN LET cast == castToType(args[i], params[pat[i].name].type)
            IN  IF cast.err # NoError THEN [parsed |-> parsed, err |-> cast.err]
                ELSE Eval(Put(parsed, pat[i].name, cast.val),
                          LAMBDA bound : ParseParametersFrom(pat, params, args, i + 1, bound))
       ELSE [parsed |-> parsed, err |-> FatalError("is not a registered parameters", pat[i].name)]
  ELSE IF pat[i].required
  THEN [parsed |-> parsed, err |-> FatalError("is required", pat[i].name)]
  ELSE ParseParametersFrom(pat, params, args, i + 1, parsed)

\* parseParameters without the length test: the tokens beyond the last
\* descriptor are passed over
ParseParametersDropsExtra(pat, params, args) ==
  ParseParametersFrom(pat, params, args, 1, EmptyObj)

\* parseParameters with the length test written >= : as many tokens as descriptors
\* are refused
ParseParametersRefusesFull(pat, params, args) ==
  IF Len(args) >= Len(pat)
  THEN [parsed |-> EmptyObj, err |-> FatalError("invalid command structure", Undefined)]
  ELSE ParseParametersFrom(pat, params, args, 1, EmptyObj)

\* parseParameters(args): the parsed object, or the error thrown
ParseParameters(pat, params, args) ==
  IF Len(args) > Len(pat)
  THEN [parsed |-> EmptyObj, err |-> FatalError("invalid command structure", Undefined)]
  ELSE ParseParametersFrom(pat, params, args, 1, EmptyObj)

\* one stage of parse: the array it was given and the array as it left it
Stage(name, received, left) == [stage |-> name, received |-> received, left |-> left]

\* parse with every stage given the raw token list instead of the shared array
ParseOnRawTokens(pat, argReg, flagReg, params, args) ==
  Eval(ParseArguments(argReg, args), LAMBDA a :
    IF a.err # NoError
    THEN [err |-> a.err, result |-> Undefined, args |-> a.args,
          afterArguments |-> a.args, afterFlags |-> a.args, stage |-> "parseArguments",
          flags |-> Undefined, stages |-> << Stage("parseArguments", args, a.args) >>,
          log |-> a.log]
    ELSE Eval(ParseFlags(flagReg, args), LAMBDA f :
           Eval(ParseParameters(pat, params, args), LAMBDA p :
             [err |-> p.err,
              result |-> IF p.err # NoError THEN Undefined
                         ELSE [arguments |-> a.parsed, flags |-> f.parsed,
                               parameters |-> p.parsed],
              args |-> f.args, afterArguments |-> a.args, afterFlags |-> f.args,
              stage |-> "parseParameters", flags |-> f.parsed, log |-> a.log,
              stages |-> << Stage("parseArguments", args, a.args),
                            Stage("parseFlags", args, f.args),
                            Stage("parseParameters", args, args) >>])))

\* parse(ctx) for a ctx that has args: ctx.arguments as assigned (Undefined if an
\* error is thrown first), ctx.args as the three stages leave it, the arrays
\* each stage received and left, the last stage that was called, and what
\* parseFlags returned
Parse(pat, argReg, flagReg, params, args) ==
  Eval(ParseArguments(argReg, args), LAMBDA a :
    IF a.err # NoError
    THEN [err |-> a.err, result |-> Undefined, args |-> a.args,
          afterArguments |-> a.args, afterFlags |-> a.args, stage |-> "parseArguments",
          flags |-> Undefined, stages |-> << Stage("parseArguments", args, a.args) >>,
          log |-> a.log]
    ELSE Eval(ParseFlags(flagReg, a.args), LAMBDA f :
           Eval(ParseParameters(pat, params, f.args), LAMBDA p :
             [err |-> p.err,
              result |-> IF p.err # NoError THEN Undefined
                         ELSE [arguments |-> a.parsed, flags |-> f.parsed,
                               parameters |-> p.parsed],
              args |-> f.args, afterArguments |-> a.args, afterFlags |-> f.args,
              stage |-> "parseParameters", flags |-> f.parsed, log |-> a.log,
              stages |-> << Stage("parseArguments", args, a.args),
                            Stage("parseFlags", a.args, f.args),
                            Stage("parseParameters", f.args, f.args) >>])))

\* ------------------------------------------------------------------------
\* State
\* ------------------------------------------------------------------------

VARIABLES
  phase,          \* where the modelled run stands
  source,         \* the pattern string p given to new Parser(p)
  pattern,        \* Parser.pattern
  arguments,      \* Parser.arguments, in insertion order
  flags,          \* Parser.flags, in insertion order
  parameters,     \* Parser.parameters
  thrown,         \* the error the last call threw (NoError if it returned)
  lastCall,       \* the last registration call: its method and its name
  lastOpts,       \* the opts of the last registration call (Undefined before any)
  regBefore,      \* the registries as they were before the last registration call
  calls,          \* the number of registration calls made
  ctxArgs,        \* ctx.args
  ctxArguments,   \* ctx.arguments
  rawArgs,        \* ctx.args as it was when parse was called
  afterArguments, \* the args array as parseArguments left it
  afterFlags,     \* the args array as parseFlags left it
  parseStage,     \* the last stage parse called ("none" before parse)
  parsedFlags,    \* the object parseFlags returned (Undefined if it was not called)
  stageLog,       \* the stages parse called, in order: what each received and left
  argumentLog,    \* the identifier tokens parseArguments found, in order, and what it did with each
  printed,        \* the documentation the help command printed, in order
  castValue,      \* the value given to castToType
  castType,       \* the type given to castToType
  castResult,     \* what castToType returned (JNull if it threw or was not called)
  command,        \* ctx.command
  exitCode,       \* the status the process ended with (Running while it has not)
  logged,         \* the messages given to Logger.error, in order
  trace,          \* the calls of exec, the hooks and the completion hook, and how each settled
  execResult,     \* the promise exec returned
  rejection       \* the error of the rejection on its way to the top-level handler

vars == <<phase, source, pattern, arguments, flags, parameters, thrown, lastCall, lastOpts,
          regBefore, calls, ctxArgs, ctxArguments, rawArgs, afterArguments, afterFlags, parseStage,
          parsedFlags, stageLog, argumentLog, printed, castValue, castType, castResult,
          command, exitCode, logged, trace, execResult, rejection>>

parserVars == <<pattern, arguments, flags, parameters>>
registrationVars == <<lastCall, lastOpts, regBefore, calls>>
parseVars == <<ctxArgs, ctxArguments, rawArgs, afterArguments, afterFlags, parseStage,
               parsedFlags, stageLog, argumentLog>>

execVars == <<command, exitCode, logged, trace, execResult, rejection>>
castVars == <<castValue, castType, castResult>>
helpVars == <<printed>>

\* the Parser object the variables hold
ThisParser == [pattern |-> pattern, arguments |-> arguments, flags |-> flags,
               parameters |-> parameters]

NoCall == [op |-> "none", name |-> Undefined]

\* the value null
Null == <<"#null">>

\* the process has not ended
Running == 0 - 1

\* a context object: which object it is, and its preventCompletion marker
\* ("absent": no such key; "false": a falsy value; "true": a truthy one)
Ctx(id, marker) == [id |-> id, preventCompletion |-> marker]

\* the context index.js builds from process.argv
ArgvCtx == Ctx(0, "absent")

NoPromise == [state |-> "none", val |-> ArgvCtx, err |-> NoError]

\* castToType is not the operation under study
InitNoCast == castValue = << >> /\ castType = NoType /\ castResult = JNull

\* nothing of the dispatcher has run
InitIdle ==
  /\ InitNoCast
  /\ printed = << >>
  /\ command = Null /\ exitCode = Running /\ logged = << >> /\ trace = << >>
  /\ execResult = NoPromise /\ rejection = NoError

\* ------------------------------------------------------------------------
\* Inputs
\* ------------------------------------------------------------------------

MaxParams == 3
MaxReg == 3

\* pattern tokens: required, optional, the empty token two blanks in a row give,
\* and a marker that is not at the end
PatternTokens ==
  { <<"<", "a", ">">>, <<"<", "b", "?", ">">>, <<"<", "c", ">">>, <<"<", "d", "?", ">">>,
    << >>, <<"<", "?", "e", ">">> }

\* the pattern strings: a command name followed by at most MaxParams tokens
PatternInputs ==
  { JoinWith(<<<<"<", "c", "m", "d", ">">>>> \o ts, " ") : ts \in SeqUpTo(PatternTokens, MaxParams) }
    \cup { << >> }

\* ------------------------------------------------------------------------
\* The pattern compiler on its own: new Parser(p) for every pattern input
\* ------------------------------------------------------------------------

InitBlank ==
  /\ thrown = NoError /\ lastCall = NoCall /\ lastOpts = Undefined /\ calls = 0
  /\ regBefore = [arguments |-> << >>, flags |-> << >>, parameters |-> EmptyObj]
  /\ ctxArgs = << >> /\ ctxArguments = Undefined /\ rawArgs = << >>
  /\ afterArguments = << >> /\ afterFlags = << >> /\ parseStage = "none"
  /\ parsedFlags = Undefined /\ stageLog = << >> /\ argumentLog = << >>

InitPattern ==
  /\ phase = "new"
  /\ source \in PatternInputs
  /\ pattern = << >> /\ arguments = << >> /\ flags = << >> /\ parameters = EmptyObj
  /\ InitBlank
  /\ InitIdle

\* new Parser(source): Parser.constructor
Construct ==
  /\ phase = "new"
  /\ LET c == CompilePattern(source)
     IN  /\ phase' = IF c.err = NoError THEN "constructed" ELSE "threw"
         /\ pattern' = c.pattern
         /\ thrown' = c.err
  /\ UNCHANGED <<castVars, helpVars, source, arguments, flags, parameters, registrationVars, parseVars, execVars>>

NextPattern == Construct

SpecPattern == InitPattern /\ [][NextPattern]_vars

\* the tokens of a pattern string after the command name
SourceTokens(p) == SubSeq(SplitOn(p, " "), 2, Len(SplitOn(p, " ")))

\* a token is optional when it carries the ? marker
Marked(token) == \E i \in 1..Len(token) : token[i] = "?"

\* some required token of the pattern string comes after an optional one
RequiredAfterOptional(p) ==
  \E i, j \in 1..Len(SourceTokens(p)) :
    i < j /\ Marked(SourceTokens(p)[i]) /\ ~Marked(SourceTokens(p)[j])

\* C9: a pattern with a required token after an optional one fails to compile with
\* the fatal pattern-order error; in every compiled descriptor list, once a
\* descriptor is optional so are all later ones; and a pattern holding only the
\* command name compiles to the empty list.
C9_PatternOrder ==
  phase # "new" =>
    /\ RequiredAfterOptional(source) =>
         /\ phase = "threw"
         /\ thrown = FatalError("required parameter cannot be after optional parameter", Undefined)
    /\ phase = "constructed" =>
         /\ Len(pattern) = Len(SourceTokens(source))
         /\ \A i, j \in 1..Len(pattern) :
              (i < j /\ ~pattern[i].required) => ~pattern[j].required
    /\ SourceTokens(source) = << >> => (phase = "constructed" /\ pattern = << >>)

\* C9 witness: a pattern with a required token after an optional one was rejected
C9_Witness ==
  /\ phase = "threw"
  /\ source = JoinWith(<<<<"<", "c", "m", "d", ">">>, <<"<", "b", "?", ">">>, <<"<", "a", ">">>>>, " ")

\* ------------------------------------------------------------------------
\* Registration: sequences of argument / flag / parameter calls on one parser
\* ------------------------------------------------------------------------

s_team == <<"t", "e", "a", "m">>
s_trace == <<"t", "r", "a", "c", "e">>
s_loud == <<"l", "o", "u", "d">>
s_t == <<"t">>
s_a == <<"a">>
s_b == <<"b">>
s_c == <<"c">>
s_n == <<"n">>
s_v == <<"v">>
s_l == <<"l">>
s_clientTemplates == <<"c", "l", "i", "e", "n", "t", "-", "t", "e", "m", "p", "l", "a", "t", "e", "s">>
s_name == <<"n", "a", "m", "e">>
s_times == <<"t", "i", "m", "e", "s">>
s_greet == <<"g", "r", "e", "e", "t">>

\* "L|S"
WithShort(longHand, shortHand) == longHand \o <<"|">> \o shortHand

\* "<name>" and "<name?>"
Required(nm) == <<"<">> \o nm \o <<">">>
Optional(nm) == <<"<">> \o nm \o <<"?", ">">>

DefaultOpts == [type |-> NoType, validate |-> "none"]
IntOpts == [type |-> "int", validate |-> "none"]

\* names given to argument() and flag(): with a short-hand, without one, and the
\* empty string
RegNames ==
  { WithShort(s_team, s_t), WithShort(s_trace, s_t), WithShort(s_loud, s_l),
    s_clientTemplates, << >> }

RegOpts == {DefaultOpts, IntOpts}

\* names given to parameter(): two of the pattern, one that is not, and the
\* empty string
ParamNames == {s_name, s_times, s_loud, << >>}

RegisterPatterns == { JoinWith(<<Required(s_greet), Required(s_name), Optional(s_times)>>, " ") }

InitRegister ==
  /\ phase = "registering"
  /\ source \in RegisterPatterns
  /\ pattern = NewParser(source).pattern
  /\ arguments = NewParser(source).arguments
  /\ flags = NewParser(source).flags
  /\ parameters = NewParser(source).parameters
  /\ InitBlank
  /\ InitIdle

\* what every registration call does to the state, given what the Parser method returns
Registered(op, name, r) ==
  /\ phase = "registering"
  /\ calls < MaxReg
  /\ calls' = calls + 1
  /\ lastCall' = [op |-> op, name |-> name]
  /\ regBefore' = [arguments |-> arguments, flags |-> flags, parameters |-> parameters]
  /\ pattern' = r.parser.pattern
  /\ arguments' = r.parser.arguments
  /\ flags' = r.parser.flags
  /\ parameters' = r.parser.parameters
  /\ thrown' = r.err
  /\ UNCHANGED <<castVars, helpVars, phase, source, parseVars, execVars>>

\* parser.argument(name, opts)
Argument ==
  \E name \in RegNames, opts \in RegOpts :
    /\ Registered("argument", name, ParserArgument(ThisParser, name, opts))
    /\ lastOpts' = opts

\* parser.flag(name, opts)
Flag ==
  \E name \in RegNames :
    /\ Registered("flag", name, ParserFlag(ThisParser, name, DefaultOpts))
    /\ lastOpts' = DefaultOpts

\* parser.parameter(name, opts)
Parameter ==
  \E name \in ParamNames, opts \in RegOpts :
    /\ Registered("parameter", name, ParserParameter(ThisParser, name, opts))
    /\ lastOpts' = opts

NextRegister == Argument \/ Flag \/ Parameter

SpecRegister == InitRegister /\ [][NextRegister]_vars

\* the identifiers of a registered entry: its long-hand and, if it has one, its short-hand
Identifiers(entry) ==
  {entry.key} \cup (IF entry.shortHand = Undefined THEN {} ELSE {entry.shortHand})

\* the entries of both registries, each tagged with its registry and its place
AllEntries ==
  { <<"argument", i, arguments[i]>> : i \in 1..Len(arguments) }
    \cup { <<"flag", i, flags[i]>> : i \in 1..Len(flags) }

\* C1: after any sequence of argument and flag registrations no identifier
\* (long-hand or short-hand) is shared by two registered entries, across
\* arguments and flags together.
C1_NoSharedIdentifier ==
  \A e1, e2 \in AllEntries :
    e1 # e2 => Identifiers(e1[3]) \cap Identifiers(e2[3]) = {}

\* ------------------------------------------------------------------------
\* Parsing: parse(ctx) on declared commands, for every token list
\* ------------------------------------------------------------------------

MaxTokens == 3

s_cmd == <<"c", "m", "d">>
s_init == <<"i", "n", "i", "t">>
s_deleterepo == <<"d", "e", "l", "e", "t", "e", "r", "e", "p", "o">>
s_query == <<"q", "u", "e", "r", "y">>
s_all == <<"a", "l", "l">>
s_local == <<"l", "o", "c", "a", "l">>
s_clientModules == <<"c", "l", "i", "e", "n", "t", "-", "m", "o", "d", "u", "l", "e", "s">>
s_client == <<"c", "l", "i", "e", "n", "t">>
s_template == <<"t", "e", "m", "p", "l", "a", "t", "e">>
s_variations == <<"v", "a", "r", "i", "a", "t", "i", "o", "n", "s">>
s_acme == <<"a", "c", "m", "e">>
s_Ada == <<"A", "d", "a">>
s_x == <<"x">>
s_5 == <<"5">>

Call(op, name, opts) == [op |-> op, name |-> name, opts |-> opts]

\* the command of the end-to-end scenario: pattern "<greet> <name> <times?>",
\* parameters name:string and times:int, flag "loud|l"
GreetDeclaration ==
  [pattern |-> JoinWith(<<Required(s_greet), Required(s_name), Optional(s_times)>>, " "),
   calls |-> << Call("parameter", s_name, DefaultOpts), Call("parameter", s_times, IntOpts),
                Call("flag", WithShort(s_loud, s_l), DefaultOpts) >>]

\* the command of the positional-binding and round-trip scenarios: pattern
\* "<cmd> <a> <b?>", parameters a:string and b:int, argument "team|t"
CmdDeclaration ==
  [pattern |-> JoinWith(<<Required(s_cmd), Required(s_a), Optional(s_b)>>, " "),
   calls |-> << Call("parameter", s_a, DefaultOpts), Call("parameter", s_b, IntOpts),
                Call("argument", WithShort(s_team, s_t), DefaultOpts) >>]

\* deleterepoCommand
DeleterepoDeclaration ==
  [pattern |-> JoinWith(<<Required(s_deleterepo), Optional(s_query)>>, " "),
   calls |-> << Call("parameter", s_query, DefaultOpts),
                Call("argument", WithShort(s_team, s_t), DefaultOpts),
                Call("flag", WithShort(s_all, s_a), DefaultOpts),
                Call("flag", WithShort(s_local, s_l), DefaultOpts) >>]

\* initCommand
InitDeclaration ==
  [pattern |-> Required(s_init),
   calls |-> << Call("argument", WithShort(s_name, s_n), DefaultOpts),
                Call("argument", s_clientTemplates, DefaultOpts),
                Call("argument", s_clientModules, DefaultOpts),
                Call("argument", WithShort(s_client, s_c), DefaultOpts),
                Call("argument", WithShort(s_template, s_t), DefaultOpts),
                Call("argument", WithShort(s_variations, s_v), IntOpts) >>]

AcmeOnlyOpts == [type |-> NoType, validate |-> "isAcme"]

\* a command whose arguments declare a validate predicate and whose flag has no
\* short-hand: pattern "<cmd> <a?>"
ValidatedDeclaration ==
  [pattern |-> JoinWith(<<Required(s_cmd), Optional(s_a)>>, " "),
   calls |-> << Call("parameter", s_a, DefaultOpts),
                Call("argument", WithShort(s_clientTemplates, s_c), AcmeOnlyOpts),
                Call("argument", WithShort(s_team, s_t), AcmeOnlyOpts),
                Call("flag", s_trace, DefaultOpts) >>]

\* a command with two required parameters, the first an int: pattern "<cmd> <a> <b>"
PairDeclaration ==
  [pattern |-> JoinWith(<<Required(s_cmd), Required(s_a), Required(s_b)>>, " "),
   calls |-> << Call("parameter", s_a, IntOpts), Call("parameter", s_b, DefaultOpts) >>]

Declarations ==
  {GreetDeclaration, CmdDeclaration, DeleterepoDeclaration, InitDeclaration,
   ValidatedDeclaration, PairDeclaration}

\* one registration call on a parser object
ApplyCall(parser, call) ==
  IF call.op = "argument" THEN ParserArgument(parser, call.name, call.opts).parser
  ELSE IF call.op = "flag" THEN ParserFlag(parser, call.name, call.opts).parser
  ELSE ParserParameter(parser, call.name, call.opts).parser

RECURSIVE ApplyCalls(_, _)
ApplyCalls(parser, cs) ==
  IF cs = << >> THEN parser
  ELSE Eval(ApplyCall(parser, Head(cs)), LAMBDA registered : ApplyCalls(registered, Tail(cs)))

\* the parser of a declared command: new Command({pattern}) and its registration calls
Declare(d) == ApplyCalls(NewParser(d.pattern), d.calls)

\* the tokens the parser searches the args array for
SearchedTokens(parser) ==
  { LongToken(parser.arguments[i].key) : i \in 1..Len(parser.arguments) }
    \cup { ShortToken(parser.arguments[i].shortHand) : i \in 1..Len(parser.arguments) }
    \cup { LongToken(parser.flags[i].key) : i \in 1..Len(parser.flags) }
    \cup { ShortToken(parser.flags[i].shortHand) : i \in 1..Len(parser.flags) }

ValueTokens == {s_acme, s_Ada, s_x, s_5}

\* the lists that give both forms of one argument, each with a value, in both orders
BothFormLists(parser) ==
  UNION { { <<LongToken(parser.arguments[i].key), v1, ShortToken(parser.arguments[i].shortHand), v2>>,
            <<ShortToken(parser.arguments[i].shortHand), v2, LongToken(parser.arguments[i].key), v1>> } :
          i \in { j \in 1..Len(parser.arguments) : parser.arguments[j].shortHand # Undefined },
          v1 \in ValueTokens, v2 \in ValueTokens }

\* the lists that give the long form of one argument right after the long form
\* of another, and two values after them
IdentifierPairLists(parser) ==
  { <<LongToken(parser.arguments[i].key), LongToken(parser.arguments[j].key), v, w>> :
      i \in 1..Len(parser.arguments), j \in 1..Len(parser.arguments),
      v \in ValueTokens, w \in ValueTokens }

\* the token lists a declared command is run on
TokenLists(parser) ==
  SeqUpTo(SearchedTokens(parser) \cup ValueTokens, MaxTokens)
    \cup BothFormLists(parser) \cup IdentifierPairLists(parser)

InitParse ==
  /\ phase = "declared"
  /\ \E d \in Declarations :
       /\ source = d.pattern
       /\ pattern = Declare(d).pattern
       /\ arguments = Declare(d).arguments
       /\ flags = Declare(d).flags
       /\ parameters = Declare(d).parameters
       /\ calls = Len(d.calls)
       /\ ctxArgs \in TokenLists(Declare(d))
  /\ thrown = NoError /\ lastCall = NoCall /\ lastOpts = Undefined
  /\ regBefore = [arguments |-> << >>, flags |-> << >>, parameters |-> EmptyObj]
  /\ ctxArguments = Undefined /\ rawArgs = << >>
  /\ afterArguments = << >> /\ afterFlags = << >> /\ parseStage = "none"
  /\ parsedFlags = Undefined /\ stageLog = << >> /\ argumentLog = << >>
  /\ InitIdle

\* parser.parse(ctx)
ParseCtx ==
  /\ phase = "declared"
  /\ \E r \in {Parse(pattern, arguments, flags, parameters, ctxArgs)} :
         /\ phase' = IF r.err = NoError THEN "parsed" ELSE "parseThrew"
         /\ thrown' = r.err
         /\ ctxArgs' = r.args
         /\ ctxArguments' = r.result
         /\ rawArgs' = ctxArgs
         /\ afterArguments' = r.afterArguments
         /\ afterFlags' = r.afterFlags
         /\ parseStage' = r.stage
         /\ parsedFlags' = r.flags
         /\ stageLog' = r.stages
         /\ argumentLog' = r.log
  /\ UNCHANGED <<castVars, helpVars, source, parserVars, registrationVars, execVars>>

NextParse == ParseCtx

SpecParse == InitParse /\ [][NextParse]_vars


\* ------------------------------------------------------------------------
\* The dispatcher (src/index.js) and Command.execute
\* ------------------------------------------------------------------------

MaxCtx == 1
MaxExecTokens == 1

s_help == <<"h", "e", "l", "p">>
s_command == <<"c", "o", "m", "m", "a", "n", "d">>
s_bogus == <<"b", "o", "g", "u", "s">>
s_printversion == <<"p", "r", "i", "n", "t", "v", "e", "r", "s", "i", "o", "n">>
s_versionLong == <<"-", "-", "v", "e", "r", "s", "i", "o", "n">>
s_versionShort == <<"-", "v">>

\* helpCommand
HelpDeclaration ==
  [pattern |-> Required(s_help),
   calls |-> << Call("argument", WithShort(s_command, s_c), DefaultOpts) >>]

\* the command registry (the set `commands`): the names of the command modules
commands == {s_help, s_deleterepo, s_init}

\* the Command a command module builds when it is loaded
DeclarationOf(name) ==
  IF name = s_help THEN HelpDeclaration
  ELSE IF name = s_deleterepo THEN DeleterepoDeclaration
  ELSE InitDeclaration

\* process.argv[2]: absent, empty, the version tokens, registered names, others
CommandTokens ==
  {Undefined, << >>, s_versionLong, s_versionShort, s_bogus, s_printversion} \cup commands

\* the values a hook resolves with: the context it was given or another object,
\* with or without the preventCompletion marker
CtxValues == { Ctx(id, marker) : id \in 0..MaxCtx, marker \in {"absent", "false", "true"} }

OrdinaryError == [msg |-> "no results found", isFatal |-> FALSE, about |-> Undefined]

\* the errors a hook throws or rejects with
StageErrors == {FatalError("stage failed", Undefined), OrdinaryError}

\* what calling a hook does: it returns a promise, or throws
HookReturns ==
  {[kind |-> "promise", err |-> NoError]} \cup {[kind |-> "throws", err |-> e] : e \in StageErrors}

Ev(ev, fn, val, err) == [ev |-> ev, fn |-> fn, val |-> val, err |-> err]

\* Parser.init: command || null
InitCommand(c) == IF Truthy(c) THEN c ELSE Null

\* ctx.command === '--version' || ctx.command === '-v'
IsVersionQuery(c) == c = s_versionLong \/ c = s_versionShort

\* IsInvalidCommand as it would be without the registry lookup
IsInvalidCommandNullOnly(c) == c = Null

\* the condition of the invalid-command branch
IsInvalidCommand(c) == c = Null \/ (c # s_versionLong /\ c # s_versionShort /\ c \notin commands)

\* the module required: commands/${command}
ModuleFor(c) == IF IsVersionQuery(c) THEN s_printversion ELSE c

\* the status the invalid-command branch exits with
InvalidCommandExit == 1

\* ParseThrew as it would be if the error of parse were swallowed
ParseThrewIgnored(r) == FALSE

\* the try block of Command.execute leaves for the catch block: parse threw
ParseThrew(r) == r.err # NoError

\* the status Command.execute exits with when parse, or the call of before, throws
ExecuteCatchExit == 1

\* the status printversion's exec exits with when package.json cannot be read
VersionFailureExit == 0

\* StageAfter as it would be for before(parsed).then(this.after).then(this.main)
StageAfterSwapped(fn) == IF fn = "before" THEN "after" ELSE IF fn = "after" THEN "main" ELSE "done"

\* the chain before(parsed).then(this.main).then(this.after): the hook the
\* fulfilment of a hook's promise is handed to ("done": the chain's own result)
StageAfter(fn) == IF fn = "before" THEN "main" ELSE IF fn = "main" THEN "after" ELSE "done"

\* OnStageRejected as it would be if the chain recovered and went on with the next hook
OnStageRejectedRecovers(fn) == IF fn = "before" THEN "main" ELSE IF fn = "main" THEN "after" ELSE "idle"

\* where a rejected hook promise goes: no then of the chain has a rejection
\* handler, so the chain's promise rejects
OnStageRejected(fn) == "rejected"

\* SkipsCompletion as it would be for 'preventCompletion' in ctx alone
SkipsCompletionIfPresent(ctx) == ctx.preventCompletion # "absent"

\* 'preventCompletion' in ctx && ctx.preventCompletion
SkipsCompletion(ctx) == ctx.preventCompletion # "absent" /\ ctx.preventCompletion = "true"

\* ExitsOnCatch as it would be for an unconditional process.exit(1)
ExitsOnCatchAlways(err) == TRUE

\* if (err.isFatal) process.exit(1)
ExitsOnCatch(err) == err.isFatal

\* the status the top-level handler exits with
CatchExit == 1

\* the status of a process whose event loop has nothing left to run
DrainedExit == 0

InitExec ==
  /\ phase = "start"
  /\ source = << >>
  /\ pattern = << >> /\ arguments = << >> /\ flags = << >> /\ parameters = EmptyObj
  /\ InitBlank
  /\ InitIdle

\* index.js with an absent or unknown command token: the invalid-command branch
DispatchInvalid ==
  /\ phase = "start"
  /\ \E c \in CommandTokens :
       /\ IsInvalidCommand(InitCommand(c))
       /\ command' = InitCommand(c)
  /\ logged' = Append(logged, "[-] invalid command")
  /\ exitCode' = InvalidCommandExit
  /\ phase' = "exited"
  /\ UNCHANGED <<castVars, helpVars, source, parserVars, thrown, registrationVars, parseVars, trace, execResult, rejection>>

\* index.js with --version or -v: printversion's exec
DispatchVersion ==
  /\ phase = "start"
  /\ \E c \in CommandTokens, readable \in BOOLEAN :
       /\ ~IsInvalidCommand(InitCommand(c))
       /\ ModuleFor(InitCommand(c)) = s_printversion
       /\ command' = InitCommand(c)
       /\ trace' = Append(trace, Ev("call", "printversion.exec", ArgvCtx, NoError))
       /\ IF readable
          THEN /\ execResult' = [state |-> "fulfilled", val |-> ArgvCtx, err |-> NoError]
               /\ phase' = "execFulfilled"
               /\ UNCHANGED <<logged, exitCode>>
          ELSE /\ logged' = Append(logged, "unable to retrieve igor version")
               /\ exitCode' = VersionFailureExit
               /\ phase' = "exited"
               /\ UNCHANGED execResult
  /\ UNCHANGED <<castVars, helpVars, source, parserVars, thrown, registrationVars, parseVars, rejection>>

\* index.js with a registered command: the module is loaded, its exec calls
\* Command.execute, which parses and, if parse returns, calls before
DispatchCommand ==
  /\ phase = "start"
  /\ \E c \in CommandTokens :
       /\ ~IsInvalidCommand(InitCommand(c))
       /\ ModuleFor(InitCommand(c)) # s_printversion
       /\ command' = InitCommand(c)
       /\ \E parser \in {Declare(DeclarationOf(ModuleFor(InitCommand(c))))} :
              /\ source' = DeclarationOf(ModuleFor(InitCommand(c))).pattern
              /\ pattern' = parser.pattern
              /\ arguments' = parser.arguments
              /\ flags' = parser.flags
              /\ parameters' = parser.parameters
              /\ calls' = Len(DeclarationOf(ModuleFor(InitCommand(c))).calls)
              /\ \E tokens \in SeqUpTo(SearchedTokens(parser) \cup ValueTokens, MaxExecTokens),
                    out \in HookReturns :
                   \E r \in {Parse(parser.pattern, parser.arguments, parser.flags,
                                  parser.parameters, tokens)},
                      called \in {Append(trace, Ev("call", "exec", ArgvCtx, NoError))} :
                       /\ rawArgs' = tokens
                       /\ ctxArgs' = r.args
                       /\ ctxArguments' = r.result
                       /\ afterArguments' = r.afterArguments
                       /\ afterFlags' = r.afterFlags
                       /\ parseStage' = r.stage
                       /\ parsedFlags' = r.flags
                       /\ stageLog' = r.stages
                       /\ argumentLog' = r.log
                       /\ thrown' = r.err
                       /\ IF ParseThrew(r)
                          THEN /\ out.kind = "promise"
                               /\ trace' = called
                               /\ logged' = Append(logged, r.err.msg)
                               /\ exitCode' = ExecuteCatchExit
                               /\ phase' = "exited"
                               /\ UNCHANGED execResult
                          ELSE IF out.kind = "throws"
                          THEN /\ trace' = called \o << Ev("call", "before", ArgvCtx, NoError),
                                                        Ev("threw", "before", ArgvCtx, out.err) >>
                               /\ logged' = Append(logged, out.err.msg)
                               /\ exitCode' = ExecuteCatchExit
                               /\ phase' = "exited"
                               /\ UNCHANGED execResult
                          ELSE /\ trace' = Append(called, Ev("call", "before", ArgvCtx, NoError))
                               /\ execResult' = [state |-> "pending", val |-> ArgvCtx, err |-> NoError]
                               /\ phase' = "before"
                               /\ UNCHANGED <<logged, exitCode>>
  /\ UNCHANGED <<castVars, helpVars, lastCall, lastOpts, regBefore, rejection>>

\* the promise of the hook that is running fulfils: the chain hands its value
\* to the next hook, or, after the last one, fulfils the promise exec returned
StageResolves ==
  /\ phase \in {"before", "main", "after"}
  /\ \E v \in CtxValues, out \in HookReturns :
       LET next == StageAfter(phase)
           resolved == Append(trace, Ev("resolved", phase, v, NoError))
       IN  IF next = "done"
           THEN /\ out.kind = "promise"
                /\ trace' = resolved
                /\ execResult' = [state |-> "fulfilled", val |-> v, err |-> NoError]
                /\ phase' = "execFulfilled"
                /\ UNCHANGED rejection
           ELSE IF out.kind = "throws"
           THEN /\ trace' = resolved \o << Ev("call", next, v, NoError),
                                           Ev("threw", next, v, out.err) >>
                /\ execResult' = [state |-> "rejected", val |-> ArgvCtx, err |-> out.err]
                /\ rejection' = out.err
                /\ phase' = "rejected"
           ELSE /\ trace' = Append(resolved, Ev("call", next, v, NoError))
                /\ phase' = next
                /\ UNCHANGED <<execResult, rejection>>
  /\ UNCHANGED <<castVars, helpVars, source, parserVars, thrown, registrationVars, parseVars, command, exitCode, logged>>

\* the promise of the hook that is running rejects
StageRejects ==
  /\ phase \in {"before", "main", "after"}
  /\ \E e \in StageErrors :
       /\ trace' = Append(trace, Ev("rejected", phase, ArgvCtx, e))
       /\ IF OnStageRejected(phase) = "rejected"
          THEN /\ execResult' = [state |-> "rejected", val |-> ArgvCtx, err |-> e]
               /\ rejection' = e
               /\ phase' = "rejected"
          ELSE /\ phase' = OnStageRejected(phase)
               /\ UNCHANGED <<execResult, rejection>>
  /\ UNCHANGED <<castVars, helpVars, source, parserVars, thrown, registrationVars, parseVars, command, exitCode, logged>>

\* the then handler of index.js: Process.complete(ctx) unless ctx opts out
Completion ==
  /\ phase = "execFulfilled"
  /\ \E out \in HookReturns :
       IF SkipsCompletion(execResult.val)
       THEN /\ out.kind = "promise"
            /\ phase' = "idle"
            /\ UNCHANGED <<trace, rejection>>
       ELSE IF out.kind = "throws"
       THEN /\ trace' = trace \o << Ev("call", "complete", execResult.val, NoError),
                                    Ev("threw", "complete", execResult.val, out.err) >>
            /\ rejection' = out.err
            /\ phase' = "rejected"
       ELSE /\ trace' = Append(trace, Ev("call", "complete", execResult.val, NoError))
            /\ phase' = "complete"
            /\ UNCHANGED rejection
  /\ UNCHANGED <<castVars, helpVars, source, parserVars, thrown, registrationVars, parseVars, command, exitCode,
                 logged, execResult>>

\* the argument the running completion hook was called with
CompleteArg == trace[Len(trace)].val

\* Process.complete resolves with the context it was given
CompleteResolves ==
  /\ phase = "complete"
  /\ trace' = Append(trace, Ev("resolved", "complete", CompleteArg, NoError))
  /\ phase' = "idle"
  /\ UNCHANGED <<castVars, helpVars, source, parserVars, thrown, registrationVars, parseVars, command, exitCode,
                 logged, execResult, rejection>>

\* Process.complete rejects
CompleteRejects ==
  /\ phase = "complete"
  /\ \E e \in StageErrors :
       /\ trace' = Append(trace, Ev("rejected", "complete", CompleteArg, e))
       /\ rejection' = e
  /\ phase' = "rejected"
  /\ UNCHANGED <<castVars, helpVars, source, parserVars, thrown, registrationVars, parseVars, command, exitCode,
                 logged, execResult>>

\* testIfUserHasLatestVersion finds no release: it warns and exits
CompleteNotFound ==
  /\ phase = "complete"
  /\ exitCode' = 1
  /\ phase' = "exited"
  /\ UNCHANGED <<castVars, helpVars, source, parserVars, thrown, registrationVars, parseVars, command,
                 logged, trace, execResult, rejection>>

\* the catch handler of index.js
TopLevelCatch ==
  /\ phase = "rejected"
  /\ logged' = Append(logged, rejection.msg)
  /\ IF ExitsOnCatch(rejection)
     THEN exitCode' = CatchExit /\ phase' = "exited"
     ELSE exitCode' = exitCode /\ phase' = "idle"
  /\ UNCHANGED <<castVars, helpVars, source, parserVars, thrown, registrationVars, parseVars, command,
                 trace, execResult, rejection>>

\* nothing is left to run: the process ends
Drain ==
  /\ phase = "idle"
  /\ exitCode' = DrainedExit
  /\ phase' = "exited"
  /\ UNCHANGED <<castVars, helpVars, source, parserVars, thrown, registrationVars, parseVars, command,
                 logged, trace, execResult, rejection>>

NextExec ==
  \/ DispatchInvalid
  \/ DispatchVersion
  \/ DispatchCommand
  \/ StageResolves
  \/ StageRejects
  \/ Completion
  \/ CompleteResolves
  \/ CompleteRejects
  \/ CompleteNotFound
  \/ TopLevelCatch
  \/ Drain

SpecExec == InitExec /\ [][NextExec]_vars

\* the events of the three lifecycle hooks, in the order they happened
HookEvents == SelectSeq(trace, LAMBDA e : e.fn \in {"before", "main", "after"})

\* the calls of the completion hook
CompleteCalls == SelectSeq(trace, LAMBDA e : e.fn = "complete" /\ e.ev = "call")

Stages == <<"before", "main", "after">>

\* no hook has rejected or thrown
NoStageFailed == \A i \in 1..Len(HookEvents) : HookEvents[i].ev \in {"call", "resolved"}

\* C3: when parsing succeeds and no stage rejects, the stages run in the order
\* before, main, after, each once: before is called with the parsed context,
\* each later stage is called only after the one before it has resolved and
\* with its resolved value, and execute resolves with after's resolved value.
C3_StagesInOrder ==
  (command \in commands /\ phase # "start" /\ thrown = NoError /\ NoStageFailed) =>
    /\ Len(HookEvents) \in 1..6
    /\ \A i \in 1..Len(HookEvents) :
         IF i % 2 = 1
         THEN /\ HookEvents[i].ev = "call"
              /\ HookEvents[i].fn = Stages[(i + 1) \div 2]
              /\ HookEvents[i].val = IF i = 1 THEN ArgvCtx ELSE HookEvents[i - 1].val
         ELSE /\ HookEvents[i].ev = "resolved"
              /\ HookEvents[i].fn = Stages[i \div 2]
    /\ execResult.state = "fulfilled" <=> Len(HookEvents) = 6
    /\ execResult.state = "fulfilled" => execResult.val = HookEvents[6].val
    /\ execResult.state # "fulfilled" => execResult.state = "pending"

\* C3 witness: the three stages resolved with three different values, and exec
\* resolved with the last
C3_Witness ==
  /\ command \in commands /\ thrown = NoError /\ NoStageFailed
  /\ execResult.state = "fulfilled"
  /\ execResult.val = Ctx(1, "false")
  /\ Len(HookEvents) = 6
  /\ HookEvents[2].val = Ctx(1, "absent")
  /\ HookEvents[4].val = Ctx(0, "true")

\* C4: if the parser raises an error during Command.execute, its message is
\* logged, the process ends with status 1, and none of before, main and after
\* is invoked.
C4_ParseErrorExits ==
  (phase # "start" /\ thrown # NoError) =>
    /\ phase = "exited"
    /\ exitCode = 1
    /\ logged = <<thrown.msg>>
    /\ HookEvents = << >>
    /\ CompleteCalls = << >>

\* C4 witness: parse threw for want of an argument's value
C4_Witness ==
  /\ phase = "exited" /\ exitCode = 1
  /\ thrown.msg = "no value passed to"
  /\ command = s_help

\* C5: a rejection of a lifecycle stage is not recovered inside execute: no
\* later stage is invoked, the promise execute returned rejects with that very
\* error, and the error reaches the top-level handler.
C5_RejectionPropagates ==
  \A i \in 1..Len(trace) :
    (trace[i].ev = "rejected" /\ trace[i].fn \in {"before", "main", "after"}) =>
      /\ i = Len(trace)
      /\ execResult = [state |-> "rejected", val |-> ArgvCtx, err |-> trace[i].err]
      /\ rejection = trace[i].err
      /\ phase \in {"rejected", "idle", "exited"}
      /\ phase # "rejected" => logged = <<trace[i].err.msg>>

\* C5 witness: main rejected after before had resolved, and the handler has run
C5_Witness ==
  /\ Len(trace) = 5
  /\ trace[5].ev = "rejected" /\ trace[5].fn = "main"
  /\ phase = "idle"

\* C6: a command module's exec is invoked exactly when the command token is
\* --version or -v (the version-report command) or a name of the registry
\* (the module of that name); for an absent token and for any other string
\* the invalid-command error is reported, the process exits with status 1 and
\* no module is invoked.
C6_DispatchByRegistry ==
  phase # "start" =>
    /\ (command = s_versionLong \/ command = s_versionShort) =>
         /\ trace # << >>
         /\ trace[1] = Ev("call", "printversion.exec", ArgvCtx, NoError)
    /\ command \in commands =>
         /\ trace # << >>
         /\ trace[1] = Ev("call", "exec", ArgvCtx, NoError)
         /\ source = DeclarationOf(command).pattern
    /\ (command \notin commands /\ command # s_versionLong /\ command # s_versionShort) =>
         /\ trace = << >>
         /\ logged = <<"[-] invalid command">>
         /\ exitCode = 1
         /\ phase = "exited"

\* C6 witness: an unknown command name was turned away
C6_Witness == command = s_bogus /\ phase = "exited" /\ exitCode = 1

\* the then handler of the dispatcher has run on the fulfilled result of exec
CompletionDecided ==
  execResult.state = "fulfilled" /\ phase \in {"complete", "idle", "rejected", "exited"}

\* C7: once exec has resolved with a context, the completion hook is invoked
\* exactly once if the context has no truthy preventCompletion marker and not
\* at all if it has one; it is never invoked before the result is there.
C7_CompletionHook ==
  /\ Len(CompleteCalls) <= 1
  /\ CompleteCalls # << >> =>
       /\ execResult.state = "fulfilled"
       /\ CompleteCalls[1].val = execResult.val
  /\ CompletionDecided =>
       Len(CompleteCalls) = IF execResult.val.preventCompletion = "true" THEN 0 ELSE 1
  /\ ~CompletionDecided => CompleteCalls = << >>

\* C7 witness: the marker is there but falsy, and the hook was invoked
C7_Witness ==
  /\ CompletionDecided
  /\ execResult.val.preventCompletion = "false"
  /\ Len(CompleteCalls) = 1

\* the top-level handler has run on the rejection
Handled == rejection # NoError /\ phase # "rejected"

\* C8: every rejection that reaches the top-level handler is reported; the
\* process exits with status 1 if the error is tagged fatal, and if it is not
\* no exit is made, so that the process ends with status 0.
C8_FatalDecidesExit ==
  Handled =>
    /\ logged = <<rejection.msg>>
    /\ rejection.isFatal => (phase = "exited" /\ exitCode = 1)
    /\ ~rejection.isFatal => /\ phase \in {"idle", "exited"}
                             /\ exitCode = IF phase = "exited" THEN 0 ELSE Running

\* C8 witness: an ordinary error of the completion hook was reported and the
\* process ended with status 0
C8_Witness ==
  /\ Handled /\ ~rejection.isFatal
  /\ trace[Len(trace)] = Ev("rejected", "complete", trace[Len(trace)].val, rejection)
  /\ phase = "exited" /\ exitCode = 0

\* x is one of the tokens of the list ts
Occurs(ts, x) == \E i \in 1..Len(ts) : ts[i] = x

\* the entries registered in the "L|S" form
HasShortHand(entry) == entry.shortHand # Undefined

\* C2: for every registered flag "L|S" and every token list, parse sets
\* flags[L] to true whenever the list contains the token --L or the token -S.
C2_FlagPresentIsTrue ==
  phase = "parsed" =>
    \A i \in 1..Len(flags) :
      ( /\ HasShortHand(flags[i])
        /\ \/ Occurs(rawArgs, <<"-", "-">> \o flags[i].key)
           \/ Occurs(rawArgs, <<"-">> \o flags[i].shortHand) )
      => /\ flags[i].key \in DOMAIN ctxArguments.flags
         /\ ctxArguments.flags[flags[i].key] = TRUE

\* the tokens --L and -S of the registered identifiers
IdentifierTokens ==
  { <<"-", "-">> \o arguments[i].key : i \in 1..Len(arguments) }
    \cup { <<"-">> \o arguments[i].shortHand : i \in { j \in 1..Len(arguments) : HasShortHand(arguments[j]) } }
    \cup { <<"-", "-">> \o flags[i].key : i \in 1..Len(flags) }
    \cup { <<"-">> \o flags[i].shortHand : i \in { j \in 1..Len(flags) : HasShortHand(flags[j]) } }

\* the list ts without its tokens at places i and i + 1
WithoutPair(ts, i) == SubSeq(ts, 1, i - 1) \o SubSeq(ts, i + 2, Len(ts))

\* --L of argument entry e is at place i of the raw token list, a value follows
\* it, the value coerces to the declared type, and no other token of the list is
\* a registered identifier
OnlyLongFormAt(e, i) ==
  /\ HasShortHand(e)
  /\ i < Len(rawArgs)
  /\ rawArgs[i] = <<"-", "-">> \o e.key
  /\ \A j \in 1..Len(rawArgs) : j # i => rawArgs[j] \notin IdentifierTokens
  /\ castToType(rawArgs[i + 1], e.type).err = NoError

\* C10: for a registered argument "L|S" and a token list in which --L occurs
\* once, followed by a value v, and no other registered identifier occurs, parse
\* stores the coerced v under arguments[L] and leaves for parameter binding the
\* list without those two tokens, the others in their order.
C10_ArgumentRoundTrip ==
  phase \in {"parsed", "parseThrew"} =>
    \A k \in 1..Len(arguments) : \A i \in 1..Len(rawArgs) :
      OnlyLongFormAt(arguments[k], i) =>
        /\ afterFlags = WithoutPair(rawArgs, i)
        /\ phase = "parsed" =>
             /\ arguments[k].key \in DOMAIN ctxArguments.arguments
             /\ ctxArguments.arguments[arguments[k].key]
                  = castToType(rawArgs[i + 1], arguments[k].type).val

\* ------------------------------------------------------------------------
\* Positional binding (parseParameters)
\* ------------------------------------------------------------------------

\* every descriptor of the compiled pattern has a parameter registration
AllRegistered == \A i \in 1..Len(pattern) : HasOwn(parameters, pattern[i].name)

\* parse got as far as parameter binding (parseFlags never throws)
BindingRan == parseStage = "parseParameters"

TooManyParametersError == FatalError("invalid command structure", Undefined)

\* the token at place i coerced to the declared type of descriptor i
Coerced(i) == castToType(afterFlags[i], parameters[pattern[i].name].type)

\* ctx.arguments.parameters binds exactly the first k descriptors, in pattern
\* order, to the k tokens left, each coerced to its declared type
BoundInOrder(k) ==
  /\ phase = "parsed"
  /\ DOMAIN ctxArguments.parameters = { pattern[i].name : i \in 1..k }
  /\ \A i \in 1..k : ctxArguments.parameters[pattern[i].name] = Coerced(i).val

\* C11 as stated: with n descriptors, all registered, and k tokens left after
\* argument and flag extraction, parsing fails with the too-many-parameters error
\* if k > n, and otherwise binds the first k descriptors, in pattern order, to the
\* k tokens coerced to their declared types, an optional descriptor without a
\* token having no key.
C11_PositionalBinding ==
  (BindingRan /\ AllRegistered) =>
    IF Len(afterFlags) > Len(pattern)
    THEN phase = "parseThrew" /\ thrown = TooManyParametersError
    ELSE BoundInOrder(Len(afterFlags))

\* every required descriptor has a token, and every token coerces to its type
Bindable(k) ==
  /\ \A i \in 1..Len(pattern) : pattern[i].required => i <= k
  /\ \A i \in 1..k : Coerced(i).err = NoError

\* C11 amended: with n descriptors, all registered, and k tokens left, parsing
\* fails with the too-many-parameters error exactly if k > n; if k <= n, every
\* required descriptor has a token and every token coerces to its declared type,
\* the first k descriptors are bound, in pattern order, to the k coerced tokens
\* and no other key is present; if k <= n and a required descriptor has no token
\* or a token does not coerce, parsing fails with a fatal error and binds nothing.
C11_BindingWhenBindable ==
  (BindingRan /\ AllRegistered) =>
    LET k == Len(afterFlags)
    IN  IF k > Len(pattern)
        THEN phase = "parseThrew" /\ thrown = TooManyParametersError
        ELSE /\ thrown # TooManyParametersError
             /\ Bindable(k) => BoundInOrder(k)
             /\ ~Bindable(k) =>
                  /\ phase = "parseThrew" /\ thrown.isFatal
                  /\ ctxArguments = Undefined

\* C11 witness: "<cmd> <a> <b?>" with a:string and b:int bound x alone, leaving
\* b without a key
C11_Witness ==
  /\ source = CmdDeclaration.pattern
  /\ BindingRan /\ AllRegistered
  /\ afterFlags = <<s_x>>
  /\ BoundInOrder(1)
  /\ ctxArguments.parameters = Put(EmptyObj, s_a, JStr(s_x))

\* ------------------------------------------------------------------------
\* Absent flags (parseFlags)
\* ------------------------------------------------------------------------

\* the tokens parseFlags searches for the flag entry e
FlagTokens(e) == {LongToken(e.key), ShortToken(e.shortHand)}

\* neither --L nor -S of the flag entry e is in the raw token list
FlagAbsent(e) == \A t \in FlagTokens(e) : ~Occurs(rawArgs, t)

\* the tokens parseFlags searches for the flags other than the one at place i
OtherFlagTokens(i) == UNION { FlagTokens(flags[j]) : j \in (1..Len(flags)) \ {i} }

\* the tokens of ts that are in none of the token sets S
Outside(ts, S) == SelectSeq(ts, LAMBDA t : t \notin S)

\* C12: for every registered flag "L|S" and every token list that contains
\* neither --L nor -S, the flag stage, and parse when it returns, yields
\* flags[L] = false, and the flag stage removes no token for that flag: the
\* tokens it received that are not searched for another flag are all left, in
\* their order.
C12_AbsentFlagIsFalse ==
  parseStage = "parseParameters" =>
    \A i \in 1..Len(flags) :
      (HasShortHand(flags[i]) /\ FlagAbsent(flags[i])) =>
        /\ HasOwn(parsedFlags, flags[i].key)
        /\ parsedFlags[flags[i].key] = FALSE
        /\ phase = "parsed" => ctxArguments.flags[flags[i].key] = FALSE
        /\ Outside(afterFlags, OtherFlagTokens(i)) = Outside(afterArguments, OtherFlagTokens(i))

\* C12 witness: deleterepo parsed [x, --team, acme]: both flags are absent, the
\* flag stage received [x] and left it whole
C12_Witness ==
  /\ phase = "parsed"
  /\ source = DeleterepoDeclaration.pattern
  /\ rawArgs = <<s_x, LongToken(s_team), s_acme>>
  /\ afterArguments = <<s_x>> /\ afterFlags = <<s_x>>
  /\ ctxArguments.flags = Put(Put(EmptyObj, s_all, FALSE), s_local, FALSE)

\* ------------------------------------------------------------------------
\* castToType on its own: one call for every value and type of the model
\* ------------------------------------------------------------------------

MaxCastLen == 3

CastAlphabet == {"t", "T", "1", "0", " ", "x", "-", ".", "e"}

s_true == <<"t", "r", "u", "e">>

\* values longer than MaxCastLen that the coercion rules are about
NamedValues ==
  { s_true, <<"T", "R", "U", "E">>, <<" ", "T", "r", "u", "E", "\t">>,
    <<"f", "a", "l", "s", "e">>, <<"f", "a", "l", "s", "e", "2">>, <<"y", "e", "s">>,
    <<"t", "r", "u", "e", "1">>, <<"1", "2", "a", "b", "c">>, <<"0", "x", "1", "A">>,
    <<"3", ".", "1", "4">>, <<" ", "4", "2", " ">>, <<"-", "1", "2", ".", "5", "0">>,
    <<"1", ".", "5", "e", "-", "2">>, s_Infinity, <<"a", "b", "c">> }

CastValues == SeqUpTo(CastAlphabet, MaxCastLen) \cup NamedValues

\* the declared types, an absent type, and a type castToType does not know
CastTypes == {"string", "int", "float", "boolean", NoType, "number"}

InitCast ==
  /\ phase = "cast"
  /\ castValue \in CastValues /\ castType \in CastTypes /\ castResult = JNull
  /\ source = << >>
  /\ pattern = << >> /\ arguments = << >> /\ flags = << >> /\ parameters = EmptyObj
  /\ InitBlank
  /\ command = Null /\ exitCode = Running /\ logged = << >> /\ trace = << >>
  /\ execResult = NoPromise /\ rejection = NoError /\ printed = << >>

\* parser.castToType(castValue, castType)
Cast ==
  /\ phase = "cast"
  /\ LET r == castToType(castValue, castType)
     IN  /\ phase' = IF r.err = NoError THEN "casted" ELSE "castThrew"
         /\ castResult' = r.val
         /\ thrown' = r.err
  /\ UNCHANGED <<helpVars, castValue, castType, source, parserVars, registrationVars, parseVars, execVars>>

NextCast == Cast

SpecCast == InitCast /\ [][NextCast]_vars

\* two characters that differ at most in case
SameLetter(c, d) ==
  c = d \/ \E k \in 1..Len(UpperLetters) : {c, d} = {UpperLetters[k], LowerLetters[k]}

SameIgnoringCase(a, b) == Len(a) = Len(b) /\ \A i \in 1..Len(a) : SameLetter(a[i], b[i])

\* str is white space, then core, then white space
Padded(str, core) ==
  \E i \in 0..Len(str) :
    /\ i + Len(core) <= Len(str)
    /\ \A k \in 1..i : IsSpace(str[k])
    /\ \A k \in (i + Len(core) + 1)..Len(str) : IsSpace(str[k])
    /\ \A k \in 1..Len(core) : SameLetter(str[i + k], core[k])

TrueLiterals == { s_true, <<"t">>, <<"1">> }

\* C13: castToType with type "boolean" returns true exactly for the strings
\* that, trimmed and compared without regard to case, are "true", "t" or "1";
\* for every other string, "" and "false2" among them, it returns false; it
\* never throws.
C13_BooleanLiterals ==
  (phase # "cast" /\ castType = "boolean") =>
    /\ phase = "casted" /\ thrown = NoError
    /\ castResult = JBool(\E lit \in TrueLiterals : Padded(castValue, lit))

\* C13 witness: " TruE<tab>" was cast to true
C13_Witness ==
  /\ phase = "casted" /\ castType = "boolean"
  /\ castValue = <<" ", "T", "r", "u", "E", "\t">>
  /\ castResult = JBool(TRUE)

\* every character of str is a decimal digit, and there is at least one
AllDigits(str) == str # << >> /\ \A i \in 1..Len(str) : IsDigit(str[i])

\* str is a decimal integer literal: a sign, then digits
IsIntegerLiteral(str) == AllDigits(Unsigned(str))

\* the part of str before its first e or E, and the part after it
Mantissa(str) ==
  IF \E i \in 1..Len(str) : str[i] \in {"e", "E"}
  THEN SubSeq(str, 1, (CHOOSE i \in 1..Len(str) :
                         str[i] \in {"e", "E"} /\ \A j \in 1..(i - 1) : str[j] \notin {"e", "E"}) - 1)
  ELSE str
Exponent(str) == SubSeq(str, Len(Mantissa(str)) + 2, Len(str))

\* the digits of str, its points left out
WithoutPoint(str) == SelectSeq(str, LAMBDA ch : ch # ".")

\* the digits after the point of str
AfterPoint(str) == IF IndexOf(str, ".") = -1 THEN << >> ELSE SubSeq(str, IndexOf(str, ".") + 2, Len(str))

\* str is a decimal literal: a sign, digits with at most one point among them,
\* and possibly an exponent
IsDecimalLiteral(str) ==
  LET m == Mantissa(Unsigned(str))
  IN  /\ AllDigits(WithoutPoint(m))
      /\ Len(m) - Len(WithoutPoint(m)) <= 1
      /\ Len(Mantissa(Unsigned(str))) = Len(Unsigned(str)) \/ IsIntegerLiteral(Exponent(Unsigned(str)))

\* a numeric string of the type: a literal, white space around it allowed
IsNumericString(str, type) ==
  IF type = "int" THEN IsIntegerLiteral(Trim(str)) ELSE IsDecimalLiteral(Trim(str))

Signed(t, magnitude) == IF IsNegative(t) THEN 0 - magnitude ELSE magnitude

\* the base-10 value of a numeric string
DecimalValue(str, type) ==
  LET t == Trim(str)
      m == Mantissa(Unsigned(t))
      x == Exponent(Unsigned(t))
  IN  IF type = "int" THEN JNum(Signed(t, DigitsValue(Unsigned(t))))
      ELSE JFloat(Signed(t, DigitsValue(WithoutPoint(m))),
                  (IF x = << >> THEN 0 ELSE Signed(x, DigitsValue(Unsigned(x)))) - Len(AfterPoint(m)))

\* the error the int and float branches throw
InvalidTypeError(value, type) ==
  FatalError(IF type = "int" THEN "is not of type int" ELSE "is not of type float", value)

\* C14: castToType with type "int" or "float" fails with the invalid-type error
\* for every string that is not a decimal number literal of that type, and for a
\* numeric string returns its base-10 value.
C14_NumericOrInvalidType ==
  (phase # "cast" /\ castType \in {"int", "float"}) =>
    IF IsNumericString(castValue, castType)
    THEN phase = "casted" /\ castResult = DecimalValue(castValue, castType)
    ELSE phase = "castThrew" /\ thrown = InvalidTypeError(castValue, castType)

\* ------------------------------------------------------------------------
\* The order of the stages of parse
\* ------------------------------------------------------------------------

\* C15: in every parse, argument extraction runs first, on the full token list;
\* flag extraction runs next, on exactly the tokens argument extraction left;
\* parameter binding runs last, on exactly the tokens flag extraction left; a
\* parse that throws in argument extraction runs no later stage.
C15_StagesSeeWhatIsLeft ==
  parseStage # "none" =>
    /\ Len(stageLog) \in {1, 3}
    /\ stageLog[1].stage = "parseArguments" /\ stageLog[1].received = rawArgs
    /\ Len(stageLog) = 1 <=> (phase = "parseThrew" /\ parseStage = "parseArguments")
    /\ Len(stageLog) = 3 =>
         /\ stageLog[2].stage = "parseFlags" /\ stageLog[2].received = stageLog[1].left
         /\ stageLog[3].stage = "parseParameters" /\ stageLog[3].received = stageLog[2].left
         /\ afterArguments = stageLog[1].left /\ afterFlags = stageLog[2].left
         /\ ctxArgs = stageLog[3].left

\* C15 witness: a parse that returned after argument extraction and flag
\* extraction each removed tokens
C15_Witness ==
  /\ phase = "parsed" /\ Len(stageLog) = 3
  /\ stageLog[1].left # stageLog[1].received
  /\ stageLog[2].left # stageLog[2].received
  /\ stageLog[3].received = ctxArgs

\* ------------------------------------------------------------------------
\* The help command (src/commands/help.js), run through the dispatcher
\* ------------------------------------------------------------------------

MaxHelpTokens == 2

\* what the help command prints: the general documentation, or the help of a command
GeneralDocs == [doc |-> "general", of |-> Undefined]
HelpOf(name) == [doc |-> "command", of |-> name]

\* the token lists help is run on: its identifiers, registered names and others
HelpTokens == {LongToken(s_command), ShortToken(s_c), s_bogus, << >>} \cup commands
HelpTokenLists == SeqUpTo(HelpTokens, MaxHelpTokens)

\* const { command = null } = ctx.arguments.arguments
RequestedCommand(parsed) ==
  IF HasOwn(parsed.arguments, s_command) THEN parsed.arguments[s_command].s ELSE Null

\* the branch of main with the registry lookup left out: every name is delegated
HelpBranchNoLookup(name) == IF name = Null THEN "general" ELSE "delegate"

\* the branch helpCommand.main takes for the requested command
HelpBranch(name) ==
  IF name = Null THEN "general" ELSE IF name \in commands THEN "delegate" ELSE "reject"

InvalidHelpCommand(name) == FatalError("invalid command passed to help", name)

InitHelp ==
  /\ phase = "helpStart"
  /\ source = << >>
  /\ pattern = << >> /\ arguments = << >> /\ flags = << >> /\ parameters = EmptyObj
  /\ InitBlank
  /\ InitIdle

\* index.js with the command help: help.js is loaded, its exec calls
\* helpCommand.execute, which parses, calls the inherited before and hands its
\* result to main
HelpExec ==
  /\ phase = "helpStart"
  /\ command' = InitCommand(s_help)
  /\ \E parser \in {Declare(HelpDeclaration)} :
         /\ source' = HelpDeclaration.pattern
         /\ pattern' = parser.pattern
         /\ arguments' = parser.arguments
         /\ flags' = parser.flags
         /\ parameters' = parser.parameters
         /\ calls' = Len(HelpDeclaration.calls)
         /\ \E tokens \in HelpTokenLists :
              \E r \in {Parse(parser.pattern, parser.arguments, parser.flags,
                             parser.parameters, tokens)},
                 called \in {Append(trace, Ev("call", "exec", ArgvCtx, NoError))} :
                  /\ rawArgs' = tokens
                  /\ ctxArgs' = r.args
                  /\ ctxArguments' = r.result
                  /\ afterArguments' = r.afterArguments
                  /\ afterFlags' = r.afterFlags
                  /\ parseStage' = r.stage
                  /\ parsedFlags' = r.flags
                  /\ stageLog' = r.stages
                  /\ argumentLog' = r.log
                  /\ thrown' = r.err
                  /\ IF ParseThrew(r)
                     THEN /\ trace' = called
                          /\ logged' = Append(logged, r.err.msg)
                          /\ exitCode' = ExecuteCatchExit
                          /\ phase' = "exited"
                     ELSE /\ trace' = called \o << Ev("call", "before", ArgvCtx, NoError),
                                                   Ev("resolved", "before", ArgvCtx, NoError),
                                                   Ev("call", "main", ArgvCtx, NoError) >>
                          /\ phase' = "helpMain"
                          /\ UNCHANGED <<logged, exitCode>>
  /\ UNCHANGED <<castVars, helpVars, lastCall, lastOpts, regBefore, execResult, rejection>>

\* helpCommand.main; when it resolves, the inherited after resolves in turn and
\* the promise exec returned fulfils with the context
HelpMain ==
  /\ phase = "helpMain"
  /\ LET name == RequestedCommand(ctxArguments)
     IN  IF HelpBranch(name) = "reject"
         THEN /\ trace' = Append(trace, Ev("rejected", "main", ArgvCtx, InvalidHelpCommand(name)))
              /\ execResult' = [state |-> "rejected", val |-> ArgvCtx,
                                err |-> InvalidHelpCommand(name)]
              /\ rejection' = InvalidHelpCommand(name)
              /\ phase' = "rejected"
              /\ UNCHANGED <<printed, logged>>
         ELSE /\ IF HelpBranch(name) = "general"
                 THEN /\ printed' = Append(printed, GeneralDocs)
                      /\ \E versionRead \in BOOLEAN :
                           logged' = IF versionRead THEN logged
                                     ELSE Append(logged, "help:printGenDocs error")
                 ELSE /\ printed' = Append(printed, HelpOf(name))
                      /\ UNCHANGED logged
              /\ trace' = trace \o << Ev("resolved", "main", ArgvCtx, NoError),
                                      Ev("call", "after", ArgvCtx, NoError),
                                      Ev("resolved", "after", ArgvCtx, NoError) >>
              /\ execResult' = [state |-> "fulfilled", val |-> ArgvCtx, err |-> NoError]
              /\ phase' = "execFulfilled"
              /\ UNCHANGED rejection
  /\ UNCHANGED <<castVars, source, parserVars, thrown, registrationVars, parseVars, command,
                 exitCode>>

NextHelp ==
  \/ HelpExec
  \/ HelpMain
  \/ Completion
  \/ CompleteResolves
  \/ CompleteRejects
  \/ CompleteNotFound
  \/ TopLevelCatch
  \/ Drain

SpecHelp == InitHelp /\ [][NextHelp]_vars

\* main was called and has settled
MainSettled ==
  \E i \in 1..Len(trace) : trace[i].fn = "main" /\ trace[i].ev \in {"resolved", "rejected"}

MainResolved == \E i \in 1..Len(trace) : trace[i] = Ev("resolved", "main", ArgvCtx, NoError)

MainRejectedWith(err) ==
  /\ \E i \in 1..Len(trace) : trace[i] = Ev("rejected", "main", ArgvCtx, err)
  /\ ~MainResolved

\* C16: once main of the help command has run it has done exactly one of three
\* things: with no --command / -c argument it printed the general
\* documentation, once; with a name of the command registry it printed that
\* command's help, once; with any other name it rejected with a fatal error
\* and printed nothing.
C16_HelpOneOfThree ==
  MainSettled =>
    LET name == RequestedCommand(ctxArguments)
    IN  /\ name = Null <=> (\A i \in 1..Len(rawArgs) :
                              rawArgs[i] \notin {LongToken(s_command), ShortToken(s_c)})
        /\ name = Null => (printed = <<GeneralDocs>> /\ MainResolved)
        /\ (name # Null /\ name \in commands) => (printed = <<HelpOf(name)>> /\ MainResolved)
        /\ (name # Null /\ name \notin commands) =>
             /\ printed = << >>
             /\ MainRejectedWith(InvalidHelpCommand(name))
             /\ InvalidHelpCommand(name).isFatal
             /\ phase = "exited" => exitCode = CatchExit

\* C16 witness: help --command bogus rejected, printed nothing, and the process
\* exited with status 1
C16_Witness ==
  /\ rawArgs = <<LongToken(s_command), s_bogus>>
  /\ MainRejectedWith(InvalidHelpCommand(s_bogus))
  /\ printed = << >>
  /\ phase = "exited" /\ exitCode = CatchExit

\* ------------------------------------------------------------------------
\* What is left for parameter binding
\* ------------------------------------------------------------------------

\* C17: after argument extraction and flag extraction have run, no token left
\* for parameter binding is --longHand or -shortHand of a registered argument or
\* flag, for every token list; so no such token is bound as a positional value
\* or counted towards the too-many-parameters error.
C17_NoIdentifierLeft ==
  parseStage = "parseParameters" =>
    /\ \A i \in 1..Len(afterFlags) : afterFlags[i] \notin IdentifierTokens
    /\ phase = "parsed" =>
         \A nm \in DOMAIN ctxArguments.parameters :
           ctxArguments.parameters[nm].kind = "string" =>
             ctxArguments.parameters[nm].s \notin IdentifierTokens

\* ------------------------------------------------------------------------
\* The raw token list of the context
\* ------------------------------------------------------------------------

\* C18: parsing extracts tokens from a working copy: for every context and
\* every set of registrations, ctx.args is the same after parse, returned or
\* thrown, as it was before parse.
C18_RawTokensKept ==
  phase \in {"parsed", "parseThrew"} => ctxArgs = rawArgs

\* ------------------------------------------------------------------------
\* Errors and the exit status
\* ------------------------------------------------------------------------

\* the errors raised in the run: thrown by parse or by a hook, or a rejection
RaisedErrors ==
  ({thrown} \cup { trace[i].err : i \in { j \in 1..Len(trace) : trace[j].ev \in {"threw", "rejected"} } })
    \ {NoError}

\* C19: for every error raised while a command is executed (a parse error, an
\* error thrown synchronously by a hook, a rejected stage), the process exits
\* with a non-zero status if and only if the error is tagged fatal.
C19_ExitIffFatal ==
  phase = "exited" => \A e \in RaisedErrors : (exitCode # 0 <=> e.isFatal)

\* ------------------------------------------------------------------------
\* Registration is atomic
\* ------------------------------------------------------------------------

\* the error of the duplicate-identifier check
IsDuplicateIdentifierError(err) ==
  err.msg \in {"argument with identifier already exists", "flag with identifier already exists"}

\* reg is before with one entry more, under key, which before did not have
OneEntryAdded(before, reg, key) ==
  /\ Len(reg) = Len(before) + 1
  /\ SubSeq(reg, 1, Len(before)) = before
  /\ reg[Len(reg)].key = key
  /\ ~RegHas(before, key)

\* C20: in any sequence of registrations, an argument or flag registration that
\* fails (the duplicate-identifier check, or any other way) leaves the argument
\* registry and the flag registry exactly as they were before the call, and one
\* that succeeds adds exactly one entry, under its long-hand key, to its own
\* registry and leaves the other as it was.
C20_RegistrationAtomic ==
  lastCall.op \in {"argument", "flag"} =>
    /\ thrown # NoError =>
         (arguments = regBefore.arguments /\ flags = regBefore.flags)
    /\ (thrown = NoError /\ lastCall.op = "argument") =>
         /\ OneEntryAdded(regBefore.arguments, arguments, LongHandOf(lastCall.name))
         /\ flags = regBefore.flags
    /\ (thrown = NoError /\ lastCall.op = "flag") =>
         /\ OneEntryAdded(regBefore.flags, flags, LongHandOf(lastCall.name))
         /\ arguments = regBefore.arguments

\* C20 witness: flag("team|t") after argument("team|t") failed the duplicate
\* check and left the one argument and no flag
C20_Witness ==
  /\ lastCall = [op |-> "flag", name |-> WithShort(s_team, s_t)]
  /\ IsDuplicateIdentifierError(thrown)
  /\ Len(arguments) = 1 /\ arguments[1].key = s_team /\ flags = << >>
  /\ arguments = regBefore.arguments /\ flags = regBefore.flags

\* ------------------------------------------------------------------------
\* Declaring a command: Command.argument, Command.flag and Command.parameter
\* (src/commands/Command), the wrappers a command module registers through
\* ------------------------------------------------------------------------

\* the names given to the wrappers: those of the registrations, and an absent one
DeclareNames == RegNames \cup {Undefined}

\* the status a wrapper exits with
RegistrationCatchExit == 1

\* if (err.isFatal) process.exit(1), in the catch block of a wrapper
RegistrationExits(err) == err.isFatal

InitDeclare ==
  /\ phase = "declaring"
  /\ source \in RegisterPatterns
  /\ pattern = NewParser(source).pattern
  /\ arguments = NewParser(source).arguments
  /\ flags = NewParser(source).flags
  /\ parameters = NewParser(source).parameters
  /\ InitBlank
  /\ InitIdle

\* the try / catch of a wrapper around the Parser method that returned r: an
\* error is logged, and ends the process if it is tagged fatal
Declared(op, name, opts, r) ==
  /\ phase = "declaring"
  /\ calls < MaxReg
  /\ calls' = calls + 1
  /\ lastCall' = [op |-> op, name |-> name]
  /\ lastOpts' = opts
  /\ regBefore' = [arguments |-> arguments, flags |-> flags, parameters |-> parameters]
  /\ pattern' = r.parser.pattern
  /\ arguments' = r.parser.arguments
  /\ flags' = r.parser.flags
  /\ parameters' = r.parser.parameters
  /\ thrown' = r.err
  /\ logged' = IF r.err = NoError THEN logged ELSE Append(logged, r.err.msg)
  /\ IF r.err # NoError /\ RegistrationExits(r.err)
     THEN exitCode' = RegistrationCatchExit /\ phase' = "exited"
     ELSE UNCHANGED <<exitCode, phase>>
  /\ UNCHANGED <<castVars, helpVars, source, parseVars, command, trace, execResult, rejection>>

\* command.argument(name, opts)
CommandArgument ==
  \E name \in DeclareNames, opts \in RegOpts :
    Declared("argument", name, opts, ParserArgument(ThisParser, name, opts))

\* command.flag(name, opts)
CommandFlag ==
  \E name \in DeclareNames :
    Declared("flag", name, DefaultOpts, ParserFlag(ThisParser, name, DefaultOpts))

\* command.parameter(name, opts)
CommandParameter ==
  \E name \in ParamNames, opts \in RegOpts :
    Declared("parameter", name, opts, ParserParameter(ThisParser, name, opts))

NextDeclare == CommandArgument \/ CommandFlag \/ CommandParameter

SpecDeclare == InitDeclare /\ [][NextDeclare]_vars

\* the error of a registration without a name
IsMissingNameError(err) ==
  /\ err.isFatal
  /\ err.msg \in {"no name found in argument registration", "no name found in flag registration",
                  "no name found in parameter registration"}

\* C21: registering an argument or a flag with an empty or absent name fails
\* with the fatal missing-name error and records nothing, and the error is
\* reported and ends the process with status 1, for argument registration as
\* well as for flag registration.
C21_MissingNameTerminates ==
  (lastCall.op \in {"argument", "flag"} /\ ~Truthy(lastCall.name)) =>
    /\ IsMissingNameError(thrown)
    /\ arguments = regBefore.arguments /\ flags = regBefore.flags
    /\ logged # << >> /\ logged[Len(logged)] = thrown.msg
    /\ phase = "exited" /\ exitCode = RegistrationCatchExit

\* ------------------------------------------------------------------------
\* Parameter registration (Parser.parameter)
\* ------------------------------------------------------------------------

\* name is the name of a descriptor of the compiled pattern
InPattern(name) == \E i \in 1..Len(pattern) : pattern[i].name = name

UnknownParameterError(name) == FatalError("was not specified in pattern", name)
DuplicateParameterError(name) == FatalError("is already a registered parameter", name)
MissingParameterNameError == FatalError("no name found in parameter registration", Undefined)

\* the registration opts stores: {type: 'string', ...opts}
StoredParameter(opts) == [type |-> IF opts.type = NoType THEN "string" ELSE opts.type]

\* every registered parameter names a descriptor of the pattern
RegisteredNamesArePatternNames == \A nm \in DOMAIN parameters : InPattern(nm)

\* C22 as stated: parameter(name, opts) succeeds only if name is the name of a
\* pattern descriptor and has no registration yet; otherwise it fails with the
\* unknown-parameter error or the duplicate-parameter error respectively and
\* leaves the parameter registry unchanged; every registered parameter names a
\* pattern descriptor, once, with type "string" when opts gives no type.
C22_ParameterRegistration ==
  /\ RegisteredNamesArePatternNames
  /\ lastCall.op = "parameter" =>
       LET name == lastCall.name
           duplicate == HasOwn(regBefore.parameters, name)
       IN  /\ thrown = NoError <=> (InPattern(name) /\ ~duplicate)
           /\ ~InPattern(name) => thrown = UnknownParameterError(name)
           /\ (InPattern(name) /\ duplicate) => thrown = DuplicateParameterError(name)
           /\ thrown # NoError => parameters = regBefore.parameters
           /\ thrown = NoError =>
                parameters = Put(regBefore.parameters, name, StoredParameter(lastOpts))

\* C22 amended: parameter(name, opts) with an empty name fails with the
\* missing-name error; with a non-empty name it succeeds only if name is the
\* name of a pattern descriptor and has no registration yet, and otherwise fails
\* with the unknown-parameter error or the duplicate-parameter error
\* respectively; every failure leaves the parameter registry unchanged; a
\* success stores exactly one registration under name, with type "string" when
\* opts gives none; every registered parameter names a pattern descriptor.
C22_ParameterRegistrationNamed ==
  /\ RegisteredNamesArePatternNames
  /\ lastCall.op = "parameter" =>
       LET name == lastCall.name
           duplicate == HasOwn(regBefore.parameters, name)
       IN  /\ thrown = NoError <=> (Truthy(name) /\ InPattern(name) /\ ~duplicate)
           /\ ~Truthy(name) => thrown = MissingParameterNameError
           /\ (Truthy(name) /\ ~InPattern(name)) => thrown = UnknownParameterError(name)
           /\ (Truthy(name) /\ InPattern(name) /\ duplicate) =>
                thrown = DuplicateParameterError(name)
           /\ thrown # NoError => parameters = regBefore.parameters
           /\ thrown = NoError =>
                /\ parameters = Put(regBefore.parameters, name, StoredParameter(lastOpts))
                /\ DOMAIN parameters = DOMAIN regBefore.parameters \cup {name}
                /\ lastOpts.type = NoType => parameters[name].type = "string"

\* C22 witness: parameter("name") after parameter("name", {type: 'int'}) failed
\* as a duplicate and left the first registration
C22_Witness ==
  /\ lastCall = [op |-> "parameter", name |-> s_name]
  /\ lastOpts = DefaultOpts
  /\ thrown = DuplicateParameterError(s_name)
  /\ parameters = Put(EmptyObj, s_name, [type |-> "int"])
  /\ parameters = regBefore.parameters

\* ------------------------------------------------------------------------
\* Descriptors without a token (parseParameters)
\* ------------------------------------------------------------------------

MissingRequiredParameterError(name) == FatalError("is required", name)

\* the descriptor positions that have no token
Tokenless == { i \in 1..Len(pattern) : i > Len(afterFlags) }

\* the loop gets past the tokens there are: there are not too many, and each
\* has a registered descriptor and coerces to its type
TokensBind ==
  /\ Len(afterFlags) <= Len(pattern)
  /\ \A i \in 1..Len(afterFlags) : HasOwn(parameters, pattern[i].name) /\ Coerced(i).err = NoError

\* the first position that has no token
FirstTokenless == Len(afterFlags) + 1

\* C23: in parameter binding, when the loop comes to a descriptor position with
\* no token: if the descriptor is required the parse fails with the
\* missing-required-parameter error naming it; if it is optional the parse goes
\* on, and the result has no key for any descriptor without a token.  So a
\* parse returns only if at least as many tokens are left as there are required
\* descriptors.
C23_MissingRequired ==
  BindingRan =>
    /\ (TokensBind /\ Tokenless # {}) =>
         IF pattern[FirstTokenless].required
         THEN /\ phase = "parseThrew"
              /\ thrown = MissingRequiredParameterError(pattern[FirstTokenless].name)
              /\ ctxArguments = Undefined
         ELSE /\ phase = "parsed"
              /\ \A i \in Tokenless : ~HasOwn(ctxArguments.parameters, pattern[i].name)
    /\ thrown.msg = "is required" =>
         \E i \in Tokenless : pattern[i].required /\ thrown.about = pattern[i].name
    /\ phase = "parsed" =>
         /\ Len(afterFlags) >= Cardinality({ i \in 1..Len(pattern) : pattern[i].required })
         /\ \A i \in Tokenless :
              ~pattern[i].required /\ ~HasOwn(ctxArguments.parameters, pattern[i].name)

\* C23 witness: "<cmd> <a> <b>" with a:int was given 5 alone, and failed for
\* want of b
C23_Witness ==
  /\ source = PairDeclaration.pattern
  /\ BindingRan /\ afterFlags = <<s_5>>
  /\ phase = "parseThrew"
  /\ thrown = MissingRequiredParameterError(s_b)

\* ------------------------------------------------------------------------
\* The value of an argument (parseArguments)
\* ------------------------------------------------------------------------

MissingValueError(token) == FatalError("no value passed to", token)

\* the log follows the working list: the first token was found in the raw list,
\* each later one in the list the callback before it left
LogFollowsWorkingList ==
  \A k \in 1..Len(argumentLog) :
    /\ argumentLog[k].before = IF k = 1 THEN rawArgs ELSE argumentLog[k - 1].left
    /\ argumentLog[k].index \in 0..(Len(argumentLog[k].before) - 1)
    /\ argumentLog[k].before[argumentLog[k].index + 1] = argumentLog[k].token
    /\ \E j \in 1..Len(arguments) :
         /\ arguments[j].key = argumentLog[k].key
         /\ argumentLog[k].token \in {LongToken(arguments[j].key), ShortToken(arguments[j].shortHand)}

\* the token after the identifier the event found, in the working list
NextToken(ev) == ev.before[ev.index + 2]

\* the identifier the event found is the last token of the working list
IsLastToken(ev) == ev.index + 1 = Len(ev.before)

\* C24: for every registered argument whose identifier token (--longHand or
\* -shortHand) is found at index i of the working list: the value it is given
\* is the token at i+1, coerced; and if there is no token at i+1 the parse fails
\* with the missing-value error naming that identifier, no value is stored for
\* the argument and ctx.arguments is not assigned.
C24_ValueIsNextToken ==
  parseStage # "none" =>
    /\ LogFollowsWorkingList
    /\ \A k \in 1..Len(argumentLog) :
         LET ev == argumentLog[k]
         IN  IF IsLastToken(ev)
             THEN /\ ev.outcome = "noValue" /\ k = Len(argumentLog)
                  /\ phase = "parseThrew" /\ thrown = MissingValueError(ev.token)
                  /\ ev.parsed = (IF k = 1 THEN EmptyObj ELSE argumentLog[k - 1].parsed)
                  /\ ev.left = ev.before
                  /\ ctxArguments = Undefined
             ELSE /\ ev.outcome # "noValue"
                  /\ ev.value = NextToken(ev)
                  /\ ev.outcome = "stored" =>
                       /\ HasOwn(ev.parsed, StripHyphens(ev.key))
                       /\ ev.parsed[StripHyphens(ev.key)] = castToType(NextToken(ev), ev.type).val
    /\ thrown.msg = "no value passed to" =>
         /\ argumentLog # << >>
         /\ IsLastToken(argumentLog[Len(argumentLog)])

\* C24 witness: "<cmd> <a> <b?>" with argument team|t was given [--team, x, -t]:
\* team was given x, then -t was found last and the parse failed naming it
C24_Witness ==
  /\ source = CmdDeclaration.pattern
  /\ rawArgs = <<LongToken(s_team), s_x, ShortToken(s_t)>>
  /\ Len(argumentLog) = 2
  /\ argumentLog[1].outcome = "stored" /\ argumentLog[1].parsed = Put(EmptyObj, s_team, JStr(s_x))
  /\ argumentLog[2].outcome = "noValue" /\ argumentLog[2].before = <<ShortToken(s_t)>>
  /\ phase = "parseThrew" /\ thrown = MissingValueError(ShortToken(s_t))

\* ------------------------------------------------------------------------
\* What flag extraction removes (parseFlags)
\* ------------------------------------------------------------------------

\* the list ts without its tokens at the places P
WithoutPositions(ts, P) ==
  LET kept == { p \in 1..Len(ts) : p \notin P }
  IN  [k \in 1..Cardinality(kept) |->
         ts[CHOOSE p \in kept : Cardinality({ q \in kept : q < p }) = k - 1]]

\* the identifier tokens of a registered entry: --L, and -S if it has a short-hand
IdentifierTokensOf(e) ==
  {LongToken(e.key)} \cup (IF HasShortHand(e) THEN {ShortToken(e.shortHand)} ELSE {})

\* the flags that are present in the list the flag stage received
PresentFlags == { i \in 1..Len(flags) : \E t \in IdentifierTokensOf(flags[i]) : Occurs(afterArguments, t) }

\* C25 as stated: flag extraction removes exactly one token for each registered
\* flag that is present, an identifier token of that flag, and no other token:
\* the list after the flag stage is the list before it without those tokens,
\* the others in their order.
C25_OneTokenPerFlag ==
  parseStage = "parseParameters" =>
    \E f \in [PresentFlags -> 1..Len(afterArguments)] :
      /\ \A i, j \in PresentFlags : i # j => f[i] # f[j]
      /\ \A i \in PresentFlags : afterArguments[f[i]] \in IdentifierTokensOf(flags[i])
      /\ afterFlags = WithoutPositions(afterArguments, { f[i] : i \in PresentFlags })

\* the tokens parseFlags searches the list for
SearchedFlagTokens == UNION { FlagTokens(flags[i]) : i \in 1..Len(flags) }

\* the places of the first occurrence of each token of S in ts
FirstOccurrences(ts, S) ==
  { p \in 1..Len(ts) : ts[p] \in S /\ \A q \in 1..(p - 1) : ts[q] # ts[p] }

\* C25 amended: flag extraction removes one token, the first occurrence, for
\* each of the two tokens it searches for per flag (--longHand and -shortHand,
\* which is -undefined for a flag registered without a short-hand) that is in
\* the list, so two tokens for a flag given in both forms; it removes no other
\* token, so no value token, and keeps the others in their order.
C25_OneTokenPerForm ==
  parseStage = "parseParameters" =>
    /\ afterFlags = WithoutPositions(afterArguments,
                                     FirstOccurrences(afterArguments, SearchedFlagTokens))
    /\ Len(afterArguments) - Len(afterFlags)
         = Cardinality({ t \in SearchedFlagTokens : Occurs(afterArguments, t) })

\* C25 witness: deleterepo was given [--all, x, -a]: both forms of the flag all
\* were removed and x was left
C25_Witness ==
  /\ source = DeleterepoDeclaration.pattern
  /\ phase = "parsed"
  /\ afterArguments = <<LongToken(s_all), s_x, ShortToken(s_a)>>
  /\ afterFlags = <<s_x>>
  /\ ctxArguments.parameters = Put(EmptyObj, s_query, JStr(s_x))

\* ------------------------------------------------------------------------
\* The validate predicate of an argument (parseArguments)
\* ------------------------------------------------------------------------

ValidationError(key) == FatalError("failed validation", key)

s_clienttemplates == <<"c", "l", "i", "e", "n", "t", "t", "e", "m", "p", "l", "a", "t", "e", "s">>

\* the long-hand name without its hyphens
Unhyphenated(key) == SelectSeq(key, LAMBDA ch : ch # "-")

\* the parsed object as it was before the k-th token of the log was found
ParsedBefore(k) == IF k = 1 THEN EmptyObj ELSE argumentLog[k - 1].parsed

\* the event found its identifier with a value after it that coerces to the type
Supplied(ev) == ~IsLastToken(ev) /\ castToType(NextToken(ev), ev.type).err = NoError

\* the argument of the event declares a predicate, and it returns false on v
Refuses(ev, v) == ev.validate # "none" /\ ~ValidateAccepts(ev.validate, v)

\* C26: for a supplied argument that declares a validate predicate: if the
\* predicate returns false on the coerced value the parse fails with the
\* validation error naming the argument and the value is not stored; if it
\* returns true, or no predicate is declared, the coerced value is stored under
\* the long-hand name with its hyphens stripped, and parse, when it returns,
\* hands over what was stored.
C26_ValidateDecides ==
  parseStage # "none" =>
    /\ \A k \in 1..Len(argumentLog) :
         LET ev == argumentLog[k]
             coerced == castToType(NextToken(ev), ev.type).val
         IN  Supplied(ev) =>
               IF Refuses(ev, coerced)
               THEN /\ ev.outcome = "rejected" /\ k = Len(argumentLog)
                    /\ phase = "parseThrew" /\ thrown = ValidationError(ev.key)
                    /\ ev.parsed = ParsedBefore(k) /\ ev.left = ev.before
                    /\ ctxArguments = Undefined
               ELSE /\ ev.outcome = "stored"
                    /\ ev.parsed = Put(ParsedBefore(k), Unhyphenated(ev.key), coerced)
                    /\ ev.left = WithoutPair(ev.before, ev.index + 1)
    /\ thrown.msg = "failed validation" =>
         /\ argumentLog # << >>
         /\ argumentLog[Len(argumentLog)].outcome = "rejected"
    /\ phase = "parsed" =>
         ctxArguments.arguments = ParsedBefore(Len(argumentLog) + 1)

\* C26 witness: the predicate of client-templates accepted acme, and parse
\* returned it under clienttemplates
C26_Witness ==
  /\ source = ValidatedDeclaration.pattern
  /\ rawArgs = <<LongToken(s_clientTemplates), s_acme>>
  /\ Len(argumentLog) = 1
  /\ argumentLog[1].validate = "isAcme" /\ argumentLog[1].outcome = "stored"
  /\ phase = "parsed"
  /\ ctxArguments.arguments = Put(EmptyObj, s_clienttemplates, JStr(s_acme))

\* ------------------------------------------------------------------------
\* Token conservation
\* ------------------------------------------------------------------------

\* the list argument extraction left is the raw list without the pair
\* (identifier, value) of each token it found, taken out one after the other
ArgumentsTakePairs ==
  /\ LogFollowsWorkingList
  /\ \A k \in 1..Len(argumentLog) :
       /\ argumentLog[k].outcome = "stored"
       /\ argumentLog[k].left = WithoutPair(argumentLog[k].before, argumentLog[k].index + 1)
  /\ afterArguments = IF argumentLog = << >> THEN rawArgs ELSE argumentLog[Len(argumentLog)].left

\* the list flag extraction left is the list it received without some tokens,
\* each of them a token searched for a registered flag
FlagsTakeIdentifiers ==
  \E P \in SUBSET (1..Len(afterArguments)) :
    /\ \A p \in P : afterArguments[p] \in SearchedFlagTokens
    /\ afterFlags = WithoutPositions(afterArguments, P)

\* every token parameter binding received is bound to the descriptor of its
\* place, and to no other
EachLeftTokenBound ==
  /\ Len(afterFlags) <= Len(pattern)
  /\ \A i, j \in 1..Len(afterFlags) : i # j => pattern[i].name # pattern[j].name
  /\ DOMAIN ctxArguments.parameters = { pattern[i].name : i \in 1..Len(afterFlags) }
  /\ \A i \in 1..Len(afterFlags) : ctxArguments.parameters[pattern[i].name] = Coerced(i).val

\* C27: on every parse that returns, each token of the input list is accounted
\* for exactly once: argument extraction took it as an identifier or as the
\* value after one, flag extraction took it as an identifier, or it was bound
\* to one positional parameter; the four counts add up to the length of the
\* input list.
C27_TokenConservation ==
  phase = "parsed" =>
    /\ ArgumentsTakePairs
    /\ FlagsTakeIdentifiers
    /\ EachLeftTokenBound
    /\ Len(rawArgs) = 2 * Len(argumentLog) + (Len(afterArguments) - Len(afterFlags))
                        + Cardinality(DOMAIN ctxArguments.parameters)

\* C27 witness: deleterepo was given [x, -t, acme]: -t and acme went to team and
\* x was bound to query
C27_Witness ==
  /\ source = DeleterepoDeclaration.pattern
  /\ phase = "parsed"
  /\ rawArgs = <<s_x, ShortToken(s_t), s_acme>>
  /\ Len(argumentLog) = 1
  /\ afterArguments = <<s_x>> /\ afterFlags = <<s_x>>
  /\ ctxArguments.parameters = Put(EmptyObj, s_query, JStr(s_x))

\* ------------------------------------------------------------------------
\* The order of the argument registrations
\* ------------------------------------------------------------------------

\* the argument registry had the entries at places i and j been registered in
\* each other's turn
Swapped(reg, i, j) ==
  [k \in 1..Len(reg) |-> IF k = i THEN reg[j] ELSE IF k = j THEN reg[i] ELSE reg[k]]

\* the argument registries of the same registrations made in another order
Reorderings(reg) == { Swapped(reg, i, j) : i, j \in 1..Len(reg) }

\* what parse comes to: the three mappings it returns, or the error it throws
Outcome(r) == [err |-> r.err, result |-> r.result]

\* the token the event took as its value came right after its identifier in
\* the list parse was given
FollowedInRawList(ev) ==
  \E p \in 1..(Len(rawArgs) - 1) : rawArgs[p] = ev.token /\ rawArgs[p + 1] = ev.value

\* C28: for the argument registrations made and the token list given, what
\* parse comes to (the three mappings, or the failure) is the same for every
\* order of the argument registrations; and the value bound to an argument is
\* the token that came right after its identifier in the token list given.
C28_RegistrationOrder ==
  phase \in {"parsed", "parseThrew"} =>
    /\ \A reg \in Reorderings(arguments) :
         Outcome(Parse(pattern, reg, flags, parameters, rawArgs))
           = [err |-> thrown, result |-> ctxArguments]
    /\ phase = "parsed" =>
         \A k \in 1..Len(argumentLog) : FollowedInRawList(argumentLog[k])

\* ------------------------------------------------------------------------
\* Registrations without a short-hand
\* ------------------------------------------------------------------------

\* the identifier tokens of the flags other than the one at place i
OtherFlagIdentifiers(i) == UNION { IdentifierTokensOf(flags[j]) : j \in (1..Len(flags)) \ {i} }

\* C29: an argument or a flag registered without a short-hand is matched by its
\* --longHand token alone: for every token list that does not hold --longHand,
\* the argument is not in the result, or the flag is false, and no token is
\* removed on its behalf.
C29_LongHandOnly ==
  /\ parseStage # "none" =>
       \A i \in 1..Len(arguments) :
         (~HasShortHand(arguments[i]) /\ ~Occurs(rawArgs, LongToken(arguments[i].key))) =>
           /\ \A k \in 1..Len(argumentLog) : argumentLog[k].key # arguments[i].key
           /\ phase = "parsed" =>
                ~HasOwn(ctxArguments.arguments, StripHyphens(arguments[i].key))
  /\ parseStage = "parseParameters" =>
       \A i \in 1..Len(flags) :
         (~HasShortHand(flags[i]) /\ ~Occurs(rawArgs, LongToken(flags[i].key))) =>
           /\ parsedFlags[flags[i].key] = FALSE
           /\ Outside(afterFlags, OtherFlagIdentifiers(i))
                = Outside(afterArguments, OtherFlagIdentifiers(i))

\* ------------------------------------------------------------------------
\* An argument given in both forms
\* ------------------------------------------------------------------------

\* the raw list holds --L of the argument entry e at place p and -S at place q,
\* each with a token after it, the two pairs apart
BothFormsAt(e, p, q) ==
  /\ HasShortHand(e)
  /\ p < Len(rawArgs) /\ q < Len(rawArgs)
  /\ rawArgs[p] = LongToken(e.key) /\ rawArgs[q] = ShortToken(e.shortHand)
  /\ (p + 1 < q \/ q + 1 < p)

\* the token v coerces to the type of e and its predicate, if any, accepts it
AcceptedBy(e, v) ==
  /\ castToType(v, e.type).err = NoError
  /\ e.validate # "none" => ValidateAccepts(e.validate, castToType(v, e.type).val)

\* argument extraction ran to its end, took the two pairs out of the raw list
\* and stored for e the value given with the short form
BothPairsTaken(e, p, q) ==
  /\ parseStage = "parseParameters"
  /\ afterArguments = WithoutPositions(rawArgs, {p, p + 1, q, q + 1})
  /\ HasOwn(ParsedBefore(Len(argumentLog) + 1), Unhyphenated(e.key))
  /\ ParsedBefore(Len(argumentLog) + 1)[Unhyphenated(e.key)] = castToType(rawArgs[q + 1], e.type).val
  /\ phase = "parsed" =>
       ctxArguments.arguments[Unhyphenated(e.key)] = castToType(rawArgs[q + 1], e.type).val

\* C30 as stated: when a token list holds both forms of one registered
\* argument, --L followed by v1 and -S followed by v2, argument extraction
\* removes both pairs and the one value stored for the argument is v2, whatever
\* the order of the pairs.
C30_BothForms ==
  parseStage # "none" =>
    \A i \in 1..Len(arguments) : \A p, q \in 1..Len(rawArgs) :
      BothFormsAt(arguments[i], p, q) => BothPairsTaken(arguments[i], p, q)

\* no token of the raw list but those at p and q is one the parser searches for
NoOtherSearched(p, q) ==
  \A r \in (1..Len(rawArgs)) \ {p, q} : rawArgs[r] \notin SearchedTokens(ThisParser)

\* C30 amended: when a token list holds both forms of one registered argument,
\* --L followed by v1 and -S followed by v2, no other token of the list is one
\* the parser searches for, and v1 and v2 both coerce to the type of the
\* argument and pass its predicate, argument extraction removes both pairs and
\* the one value stored for the argument is v2, whatever the order of the pairs;
\* if v1 or v2 does not coerce or is refused, the parse fails instead.
C30_BothFormsAccepted ==
  parseStage # "none" =>
    \A i \in 1..Len(arguments) : \A p, q \in 1..Len(rawArgs) :
      (BothFormsAt(arguments[i], p, q) /\ NoOtherSearched(p, q)) =>
        IF AcceptedBy(arguments[i], rawArgs[p + 1]) /\ AcceptedBy(arguments[i], rawArgs[q + 1])
        THEN BothPairsTaken(arguments[i], p, q)
        ELSE phase = "parseThrew" /\ parseStage = "parseArguments"

\* C30 witness: deleterepo was given [-t, acme, --team, x]: both pairs were
\* removed and team is acme, the value given with -t
C30_Witness ==
  /\ source = DeleterepoDeclaration.pattern
  /\ rawArgs = <<ShortToken(s_t), s_acme, LongToken(s_team), s_x>>
  /\ phase = "parsed"
  /\ afterArguments = << >>
  /\ Len(argumentLog) = 2
  /\ ctxArguments.arguments = Put(EmptyObj, s_team, JStr(s_acme))

====
